---- MODULE Spec2Model ----
(***************************************************************************)
(* Ingestion-and-retrieval pipeline of personal-rag: deterministic chunk   *)
(* IDs, the change-detection gate, the two ingestion entry points with     *)
(* their batch flushes and error handling, the token-limit batching of the *)
(* embedding service, the chunker, the serialisation of chunk metadata and *)
(* the retrieval query with its distance-to-score conversion, the fetch of *)
(* one source's chunks, re-ingestion of modified documents, concurrent     *)
(* runs against one index and the collection resets.                       *)
(***************************************************************************)
EXTENDS Integers, Sequences, FiniteSets, TLC

VARIABLES
    collection,     \* ChromaDB collection: chunk id -> stored record
    clock,          \* the instant datetime.now() denotes, in UTC
    tz,             \* UTC offset of the ingesting process' local timezone
    pc,             \* position of the ingestion run: "idle" | "loop" | "final"
    mode,           \* running entry point: "incremental" | "legacy"
    documents,      \* the documents argument of the run
    skip_unchanged, \* the skip_unchanged argument of the run
    batch_size,     \* the batch_size argument of the run
    i,              \* loop index into documents (1-based, enumerate(documents, 1))
    batch_chunks,   \* pending chunks (batch_chunks / all_chunks)
    created,        \* every chunk the run has added to the pending chunks
    stats,          \* the run's IngestionStats
    run_faults,     \* embedding/storage calls that raised during the run
    fault_log,      \* which calls these were, in order
    start_empty,    \* whether the collection was empty when the run started
    history,        \* what the caller obtained from each finished run
    gate_query,     \* last direct call of should_skip_by_metadata
    gate_answer,    \* its outcome
    emb_input,      \* chunks handed to embed_chunks
    emb_fail_at,    \* provider request that raises (0: none)
    emb_out,        \* outcome of embed_chunks
    chunk_input,    \* document handed to chunk_document
    chunk_out,      \* outcome of chunk_document
    meta_dict,      \* map to_dict produced for a chunk's metadata
    meta_back,      \* outcome of from_dict on that map
    query_args,     \* arguments of RetrievalService.query and what its
                    \* collaborators do during the call
    query_out,      \* outcome of RetrievalService.query
    fetch_args,     \* argument of get_document_by_source and what the store
                    \* does during the call
    fetch_out,      \* outcome of get_document_by_source
    upserts,        \* concurrent runs: the upsert calls each run still has to issue
    write_log,      \* concurrent runs: the upsert calls issued, in order
    collection_stats \* outcome of the last get_collection_stats

vars == <<collection, clock, tz, pc, mode, documents, skip_unchanged, batch_size,
          i, batch_chunks, created, stats, run_faults, fault_log, start_empty,
          history, gate_query, gate_answer, emb_input, emb_fail_at, emb_out,
          chunk_input, chunk_out, meta_dict, meta_back, query_args, query_out,
          fetch_args, fetch_out, upserts, write_log, collection_stats>>

ingest_vars == <<pc, mode, documents, skip_unchanged, batch_size, i, batch_chunks,
                 created, stats, run_faults, fault_log, start_empty, history>>
gate_vars == <<gate_query, gate_answer>>
emb_vars == <<emb_input, emb_fail_at, emb_out>>
chunk_vars == <<chunk_input, chunk_out, meta_dict, meta_back>>
query_vars == <<query_args, query_out>>
fetch_vars == <<fetch_args, fetch_out>>
conc_vars == <<upserts, write_log>>

(***************************************************************************)
(* Bounds of the model                                                     *)
(***************************************************************************)
MaxDocs == 3          \* longest documents list of a run
MaxRuns == 2          \* ingestion runs per behaviour
MaxFaults == 2        \* embedding/storage faults injected per behaviour
MaxEmbedChunks == 4   \* longest chunk list handed to embed_chunks directly
MaxPieces == 3        \* most texts the splitter yields for a document chunked directly
MantissaBits == 3     \* significant bits of a float
MaxExponent == 6      \* distances go down to 2^-MaxExponent
MaxHits == 3          \* most records the index holds when it is queried

(***************************************************************************)
(* Program constants                                                       *)
(***************************************************************************)
MAX_TOKENS_PER_REQUEST == 300000
UPSERT_BATCH_SIZE == 100
CHUNKS_PER_DOC_AVG == 5
STATS_SAMPLE_LIMIT == 100

(***************************************************************************)
(* Sequence helpers                                                        *)
(***************************************************************************)
\* the sum of s[lo..hi], by halves
RECURSIVE SumRange(_, _, _)
SumRange(s, lo, hi) ==
    IF lo > hi THEN 0
    ELSE IF lo = hi THEN s[lo]
    ELSE LET mid == (lo + hi) \div 2
         IN  SumRange(s, lo, mid) + SumRange(s, mid + 1, hi)

SumSeq(s) == SumRange(s, 1, Len(s))

Range(s) == {s[k] : k \in 1..Len(s)}

RECURSIVE Flatten(_)
Flatten(seqs) == IF seqs = <<>> THEN <<>> ELSE Head(seqs) \o Flatten(Tail(seqs))

Min(a, b) == IF a <= b THEN a ELSE b

Last(s) == s[Len(s)]

(***************************************************************************)
(* datetime: naive (tzinfo "none") or timezone-aware UTC (tzinfo "utc").   *)
(* wall is the wall-clock reading; for an aware UTC value it is the        *)
(* instant, for a naive local value it is instant + tz.                    *)
(***************************************************************************)
None == [kind |-> "none"]

Naive(w) == [kind |-> "dt", wall |-> w, tzinfo |-> "none"]

AwareUTC(w) == [kind |-> "dt", wall |-> w, tzinfo |-> "utc"]

\* datetime.now(): naive local wall clock
DatetimeNow(now, offset) == Naive(now + offset)

\* datetime.isoformat(): text without offset for naive, "+00:00" suffix for UTC
Isoformat(d) ==
    [fmt |-> "iso", wall |-> d.wall,
     suffix |-> IF d.tzinfo = "utc" THEN "+00:00" ELSE ""]

\* datetime.fromisoformat(): parses the text back, raises ValueError otherwise
Fromisoformat(s) ==
    IF s.fmt = "iso"
    THEN [ok |-> TRUE,
          value |-> IF s.suffix = "+00:00" THEN AwareUTC(s.wall) ELSE Naive(s.wall)]
    ELSE [ok |-> FALSE, value |-> None]

\* x.replace(tzinfo=timezone.utc) when x.tzinfo is None
AssumeUTC(d) == IF d.tzinfo = "none" THEN AwareUTC(d.wall) ELSE d

(***************************************************************************)
(* Sources and the 32-bit MD5 prefix.  The source domain holds two         *)
(* distinct strings ("a", "c") whose digests agree on the first 8 hex      *)
(* digits, as the pigeonhole principle guarantees some strings do.         *)
(***************************************************************************)
Sources == {"a", "b", "c", "e", "w", "x"}

Md5Prefix(source) ==
    CASE source = "a" -> "h1"
      [] source = "b" -> "h2"
      [] source = "c" -> "h1"
      [] source = "e" -> "h3"
      [] source = "w" -> "h5"
      [] OTHER -> "h4"

ChunkIdFromContent(chunk) ==
    <<Md5Prefix(chunk.metadata.source), chunk.metadata.chunk_index,
      chunk.content.text>>

ChunkIdFromTime(chunk) ==
    <<Md5Prefix(chunk.metadata.source), chunk.metadata.chunk_index,
      chunk.metadata.ingested_at.wall>>

\* IngestionPipeline._generate_chunk_id: f"{source_hash}_{chunk_index}"
GenerateChunkId(chunk) ==
    <<Md5Prefix(chunk.metadata.source), chunk.metadata.chunk_index>>

(***************************************************************************)
(* Documents.  content.kind tells empty content and whitespace-only        *)
(* content from text; content.pieces is the number of texts the splitter   *)
(* yields for the content.  chunking is "raises" for a document on which   *)
(* the chunker called by the pipeline raises (as a substituted chunker     *)
(* can), "splitter_raises" for one on which the text splitter raises       *)
(* inside chunk_document.                                                  *)
(***************************************************************************)
CHUNK_SIZE == 512         \* Settings.chunk_size: token bound of a pipeline chunk

\* a str value of an Optional[str] field
Str(s) == [kind |-> "str", value |-> s]

\* a member of the enum SourceType
SourceType(v) == [kind |-> "SourceType", value |-> v]

SourceTypeValues == {"local", "gdrive", "email", "slack"}

Doc(source, source_type, modified_at, kind, pieces, chunking) ==
    [content |-> [text |-> source, kind |-> kind, pieces |-> pieces],
     metadata |-> [source |-> source, source_type |-> SourceType(source_type),
                   title |-> Str(source), author |-> None, created_at |-> None,
                   modified_at |-> modified_at, file_type |-> None, url |-> None],
     chunking |-> chunking]

\* Every document was last modified at instant 0, the instant at which the
\* model starts.  Local files carry a naive local mtime, cloud-drive files an
\* aware UTC one.
DocPool(offset) ==
    { Doc("a", "local", Naive(0 + offset), "text", 2, "ok"),
      Doc("b", "gdrive", AwareUTC(0), "text", 5, "ok"),
      Doc("c", "local", None, "text", 1, "ok"),
      Doc("e", "local", Naive(0 + offset), "empty", 0, "ok"),
      Doc("w", "gdrive", AwareUTC(0), "text", 2, "splitter_raises"),
      Doc("x", "gdrive", AwareUTC(0), "text", 2, "raises") }

\* The documents lists offered to a run: the sub-lists of the pool in the
\* order a, x, b, c, e, w, at most MaxDocs long
PoolRank(source) ==
    CASE source = "a" -> 1
      [] source = "x" -> 2
      [] source = "b" -> 3
      [] source = "c" -> 4
      [] source = "e" -> 5
      [] OTHER -> 6

DocLists(offset) ==
    { s \in UNION { [1..n -> DocPool(offset)] : n \in 0..MaxDocs } :
        \A j, k \in 1..Len(s) :
            j < k => PoolRank(s[j].metadata.source) < PoolRank(s[k].metadata.source) }

\* batch_size 1 puts the flush threshold at 5 pending chunks
BatchSizes == {1}

\* "not document.content.strip()"
IsBlank(content) == content.kind \in {"empty", "whitespace"}

\* self.text_splitter.split_text(document.content)
SplitText(content) == [k \in 1..content.pieces |-> <<content.text, k - 1>>]

MakeChunksRunningTotal(document, text_chunks, now, offset) ==
    [idx \in 1..Len(text_chunks) |->
        [content |-> [text |-> text_chunks[idx], tokens |-> CHUNK_SIZE],
         metadata |-> [source |-> document.metadata.source,
                       source_type |-> document.metadata.source_type,
                       chunk_index |-> idx - 1,
                       total_chunks |-> idx,
                       title |-> document.metadata.title,
                       author |-> document.metadata.author,
                       created_at |-> document.metadata.created_at,
                       modified_at |-> document.metadata.modified_at,
                       file_type |-> document.metadata.file_type,
                       url |-> document.metadata.url,
                       ingested_at |-> DatetimeNow(now, offset)],
         embedding |-> None]]

\* "for idx, chunk_text in enumerate(text_chunks)": one DocumentChunk per
\* text, its ChunkMetadata copied from the document, ingested_at defaulting
\* to datetime.now()
MakeChunks(document, text_chunks, now, offset) ==
    [idx \in 1..Len(text_chunks) |->
        [content |-> [text |-> text_chunks[idx], tokens |-> CHUNK_SIZE],
         metadata |-> [source |-> document.metadata.source,
                       source_type |-> document.metadata.source_type,
                       chunk_index |-> idx - 1,
                       total_chunks |-> Len(text_chunks),
                       title |-> document.metadata.title,
                       author |-> document.metadata.author,
                       created_at |-> document.metadata.created_at,
                       modified_at |-> document.metadata.modified_at,
                       file_type |-> document.metadata.file_type,
                       url |-> document.metadata.url,
                       ingested_at |-> DatetimeNow(now, offset)],
         embedding |-> None]]

\* the body of the try block of chunk_document; raised stands for an
\* exception raised inside it
ChunkDocumentTry(document, now, offset) ==
    IF document.chunking = "splitter_raises"
    THEN [raised |-> TRUE, chunks |-> <<>>]
    ELSE LET text_chunks == SplitText(document.content)
         IN  IF text_chunks = <<>>
             THEN [raised |-> FALSE, chunks |-> <<>>]
             ELSE [raised |-> FALSE,
                   chunks |-> MakeChunks(document, text_chunks, now, offset)]

\* DocumentChunker.chunk_document with its outcome: blank content returns
\* [] before the try, "except Exception" returns []
ChunkDocumentOutcome(document, now, offset) ==
    IF IsBlank(document.content)
    THEN [raised |-> FALSE, chunks |-> <<>>]
    ELSE LET body == ChunkDocumentTry(document, now, offset)
         IN  IF body.raised THEN [raised |-> FALSE, chunks |-> <<>>] ELSE body

\* the list DocumentChunker.chunk_document returns
ChunkDocument(document, now, offset) ==
    ChunkDocumentOutcome(document, now, offset).chunks

(***************************************************************************)
(* EmbeddingService (src/embeddings.py)                                    *)
(***************************************************************************)
\* The vector the provider returns for a text
Vec(content) == [vec |-> content.text]

\* OpenAIEmbeddings.embed_documents: one vector per text, in order
EmbedDocuments(texts) == [k \in 1..Len(texts) |-> Vec(texts[k])]

\* EmbeddingService._count_tokens
CountTokens(content) == content.tokens

ChunkTokens(chunks) == [k \in 1..Len(chunks) |-> CountTokens(chunks[k].content)]

AttachEmbeddingsShifted(batch, embeddings) ==
    [k \in 1..Len(batch) |->
        [batch[k] EXCEPT !.embedding = embeddings[(k % Len(embeddings)) + 1]]]

\* for chunk, embedding in zip(batch, embeddings): chunk.embedding = embedding
AttachEmbeddings(batch, embeddings) ==
    [k \in 1..Len(batch) |->
        IF k <= Len(embeddings)
        THEN [batch[k] EXCEPT !.embedding = embeddings[k]]
        ELSE batch[k]]

ShouldCloseBatchAtLimit(current_tokens, tokens, current_batch) ==
    current_tokens + tokens >= MAX_TOKENS_PER_REQUEST /\ current_batch # <<>>

\* if current_tokens + tokens > MAX_TOKENS_PER_REQUEST and current_batch
ShouldCloseBatch(current_tokens, tokens, current_batch) ==
    current_tokens + tokens > MAX_TOKENS_PER_REQUEST /\ current_batch # <<>>

\* the greedy loop of embed_chunks over zip(chunks, chunk_tokens), from
\* position k on, followed by "if current_batch: batches.append(current_batch)"
RECURSIVE BatchLoop(_, _, _, _, _)
BatchLoop(chunks, k, batches, current_batch, current_tokens) ==
    IF k > Len(chunks)
    THEN IF current_batch # <<>> THEN Append(batches, current_batch) ELSE batches
    ELSE LET tokens == CountTokens(chunks[k].content)
             close == ShouldCloseBatch(current_tokens, tokens, current_batch)
         IN  BatchLoop(chunks, k + 1,
                       IF close THEN Append(batches, current_batch) ELSE batches,
                       Append(IF close THEN <<>> ELSE current_batch, chunks[k]),
                       (IF close THEN 0 ELSE current_tokens) + tokens)

MakeBatches(chunks) == BatchLoop(chunks, 1, <<>>, <<>>, 0)

\* whether embed_chunks takes the single-request path
FitsOneRequest(chunks) == SumSeq(ChunkTokens(chunks)) <= MAX_TOKENS_PER_REQUEST

PlannedBatchesNoShortCircuit(chunks) ==
    IF FitsOneRequest(chunks) THEN <<chunks>> ELSE MakeBatches(chunks)

\* the provider requests embed_chunks plans for the chunks
PlannedBatches(chunks) ==
    IF chunks = <<>> THEN <<>>
    ELSE IF FitsOneRequest(chunks) THEN <<chunks>>
    ELSE MakeBatches(chunks)

\* "for i, batch in enumerate(batches, 1)": requests k.. of the plan; request
\* number fail_at raises out of embed_texts
RECURSIVE ProcessBatches(_, _, _, _)
ProcessBatches(batches, k, fail_at, embedded) ==
    IF k > Len(batches)
    THEN [raised |-> FALSE, embedded |-> embedded, calls |-> Len(batches)]
    ELSE IF k = fail_at
    THEN [raised |-> TRUE, embedded |-> embedded, calls |-> k]
    ELSE LET batch_texts == [j \in 1..Len(batches[k]) |-> batches[k][j].content]
             embeddings == EmbedDocuments(batch_texts)
         IN  ProcessBatches(batches, k + 1, fail_at,
                            embedded \o AttachEmbeddings(batches[k], embeddings))

\* EmbeddingService.embed_chunks.  chunks_after is the caller's list after the
\* call: the chunk objects are mutated in place, also when a later request
\* raises.
EmbedChunks(chunks, fail_at) ==
    LET batches == PlannedBatches(chunks)
        run == ProcessBatches(batches, 1, fail_at, <<>>)
    IN  [raised |-> run.raised,
         result |-> IF run.raised THEN <<>> ELSE run.embedded,
         calls |-> run.calls,
         batches |-> batches,
         chunks_after |-> run.embedded \o
                          SubSeq(chunks, Len(run.embedded) + 1, Len(chunks))]

(***************************************************************************)
(* Vector index store and ChunkMetadata serialisation                      *)
(***************************************************************************)
\* the fields of ChunkMetadata
RequiredFields == {"source", "source_type", "chunk_index", "total_chunks"}

OptionalFields == {"title", "author", "created_at", "modified_at", "file_type", "url"}

DatetimeFields == {"created_at", "modified_at", "ingested_at"}

ChunkMetadataFields == RequiredFields \cup OptionalFields \cup {"ingested_at"}

\* the value to_dict stores for a field that is not None
DumpValue(key, value) ==
    IF key \in DatetimeFields THEN Isoformat(value)
    ELSE IF key = "source_type" THEN value.value
    ELSE value

ToDictKeepsNulls(metadata) ==
    [key \in DOMAIN metadata |->
        IF key \in OptionalFields /\ metadata[key] = None THEN None
        ELSE DumpValue(key, metadata[key])]

\* ChunkMetadata.to_dict: None-valued fields deleted, timestamps as ISO
\* text, the enum as its string value.  Only the Optional fields can be None.
ToDict(metadata) ==
    LET kept == {key \in DOMAIN metadata :
                    key \notin OptionalFields \/ metadata[key] # None}
    IN  [key \in kept |-> DumpValue(key, metadata[key])]

\* the field value from_dict hands to the constructor for a stored value
LoadValue(key, value) ==
    IF key \in DatetimeFields
    THEN IF value = None THEN None ELSE Fromisoformat(value).value
    ELSE IF key = "source_type" THEN SourceType(value)
    ELSE value

\* ChunkMetadata.from_dict: timestamps that are present and not null go
\* through fromisoformat; fromisoformat and SourceType() raise ValueError on
\* text they cannot read, the constructor raises on a missing required field
\* (or a null map), fills absent Optional fields with None and an absent
\* ingested_at with datetime.now()
FromDict(data, now, offset) ==
    LET unreadable ==
            \/ \E key \in RequiredFields : key \notin DOMAIN data
            \/ \E key \in DatetimeFields \cap DOMAIN data :
                  data[key] # None /\ ~Fromisoformat(data[key]).ok
            \/ /\ "source_type" \in DOMAIN data
               /\ data.source_type \notin SourceTypeValues
    IN  IF unreadable THEN [raised |-> TRUE, value |-> None]
        ELSE [raised |-> FALSE,
              value |-> [key \in ChunkMetadataFields |->
                            IF key \in DOMAIN data THEN LoadValue(key, data[key])
                            ELSE IF key = "ingested_at"
                            THEN DatetimeNow(now, offset)
                            ELSE None]]

UpsertKeepExisting(coll, ids, records) ==
    [id \in (DOMAIN coll) \cup Range(ids) |->
        IF id \in DOMAIN coll
        THEN coll[id]
        ELSE records[CHOOSE j \in 1..Len(ids) : ids[j] = id]]

UpsertReplacing(coll, ids, records) ==
    [id \in Range(ids) |->
        records[CHOOSE j \in 1..Len(ids) :
                    ids[j] = id /\ \A m \in (j + 1)..Len(ids) : ids[m] # id]]

\* collection.upsert(ids, documents, embeddings, metadatas): insert, or
\* overwrite the record with the same id; the last entry of a call wins
Upsert(coll, ids, records) ==
    [id \in (DOMAIN coll) \cup Range(ids) |->
        IF id \in Range(ids)
        THEN records[CHOOSE j \in 1..Len(ids) :
                        ids[j] = id /\ \A m \in (j + 1)..Len(ids) : ids[m] # id]
        ELSE coll[id]]

NumSlices(n) == (n + UPSERT_BATCH_SIZE - 1) \div UPSERT_BATCH_SIZE

\* "for i in range(0, len(chunks), batch_size)": slices k.. of the records;
\* the upsert of slice number fail_slice raises
RECURSIVE UpsertSlices(_, _, _, _, _)
UpsertSlices(coll, ids, records, k, fail_slice) ==
    IF k > NumSlices(Len(ids))
    THEN [raised |-> FALSE, collection |-> coll]
    ELSE IF k = fail_slice
    THEN [raised |-> TRUE, collection |-> coll]
    ELSE LET first == (k - 1) * UPSERT_BATCH_SIZE + 1
             batch_end == Min(k * UPSERT_BATCH_SIZE, Len(ids))
         IN  UpsertSlices(Upsert(coll, SubSeq(ids, first, batch_end),
                                 SubSeq(records, first, batch_end)),
                          ids, records, k + 1, fail_slice)

\* IngestionPipeline._store_chunks
StoreChunks(coll, chunks, fail_slice) ==
    IF chunks = <<>> THEN [raised |-> FALSE, collection |-> coll]
    ELSE LET ids == [k \in 1..Len(chunks) |-> GenerateChunkId(chunks[k])]
             records == [k \in 1..Len(chunks) |->
                            [document |-> chunks[k].content,
                             embedding |-> chunks[k].embedding,
                             metadata |-> ToDict(chunks[k].metadata)]]
         IN  UpsertSlices(coll, ids, records, 1, fail_slice)

(***************************************************************************)
(* Change-detection gate                                                   *)
(***************************************************************************)
ModifiedAfterOrAt(modified_at, ingested_at) ==
    AssumeUTC(modified_at).wall >= ingested_at.wall

\* "if modified_at > ingested_at" once both are timezone-aware
ModifiedAfter(modified_at, ingested_at) ==
    AssumeUTC(modified_at).wall > ingested_at.wall

\* the body of the try block of _should_skip; raised stands for an exception
\* raised inside it
ShouldSkipTry(coll, source, modified_at, lookup_raises) ==
    LET id == <<Md5Prefix(source), 0>>
        Return(v) == [raised |-> FALSE, value |-> v]
        Raise == [raised |-> TRUE, value |-> FALSE]
    IN  IF lookup_raises THEN Raise
        ELSE IF id \notin DOMAIN coll THEN Return(FALSE)
        ELSE LET metadata == coll[id].metadata
             IN  IF "source" \notin DOMAIN metadata THEN Raise
                 ELSE IF "ingested_at" \notin DOMAIN metadata THEN Return(FALSE)
                 ELSE LET parsed == Fromisoformat(metadata.ingested_at)
                      IN  IF ~parsed.ok THEN Raise
                          ELSE IF modified_at # None
                                  /\ ModifiedAfter(modified_at, AssumeUTC(parsed.value))
                          THEN Return(FALSE)
                          ELSE Return(TRUE)

ShouldSkipUnguarded(coll, source, modified_at, title, lookup_raises) ==
    ShouldSkipTry(coll, source, modified_at, lookup_raises)

\* IngestionPipeline._should_skip: "except Exception" answers False
ShouldSkip(coll, source, modified_at, title, lookup_raises) ==
    LET body == ShouldSkipTry(coll, source, modified_at, lookup_raises)
    IN  IF body.raised THEN [raised |-> FALSE, value |-> FALSE] ELSE body

\* IngestionPipeline.should_skip_document
ShouldSkipDocument(coll, doc) ==
    ShouldSkip(coll, doc.metadata.source, doc.metadata.modified_at,
               doc.metadata.title, FALSE).value

(***************************************************************************)
(* Ingestion runs                                                          *)
(***************************************************************************)
\* IngestionStats() (processing_time is not modelled)
NewStats ==
    [total_documents |-> 0, total_chunks |-> 0, skipped_documents |-> 0,
     failed_documents |-> 0, failed_files |-> <<>>]

RecordFailureCountOnly(st, source) ==
    [st EXCEPT !.failed_documents = @ + 1]

\* stats.failed_documents += 1; stats.failed_files.append(source)
RecordFailure(st, source) ==
    [st EXCEPT !.failed_documents = @ + 1, !.failed_files = Append(@, source)]

NoFault == [kind |-> "none", at |-> 0]

\* faults injected so far, over the finished runs and the running one
FaultsSoFar ==
    SumSeq([k \in 1..Len(history) |-> history[k].faults])
    + (IF pc = "idle" THEN 0 ELSE run_faults)

\* the embedding request or upsert slice of a flush that may raise
FaultsFor(chunks) ==
    {NoFault}
    \cup {[kind |-> "embed", at |-> k] : k \in 1..Len(PlannedBatches(chunks))}
    \cup {[kind |-> "store", at |-> k] : k \in 1..NumSlices(Len(chunks))}

ProcessAndStoreBatchStoreFirst(coll, chunks, st, fault) ==
    LET store == StoreChunks(coll, chunks,
                             IF fault.kind = "store" THEN fault.at ELSE 0)
        emb == EmbedChunks(chunks, IF fault.kind = "embed" THEN fault.at ELSE 0)
    IN  IF store.raised
        THEN [raised |-> TRUE, collection |-> store.collection, stats |-> st,
              chunks |-> chunks]
        ELSE IF emb.raised
        THEN [raised |-> TRUE, collection |-> store.collection, stats |-> st,
              chunks |-> emb.chunks_after]
        ELSE [raised |-> FALSE, collection |-> store.collection,
              stats |-> [st EXCEPT !.total_chunks = @ + Len(emb.result)],
              chunks |-> emb.chunks_after]

\* IngestionPipeline._process_and_store_batch: embed, store, count; an
\* exception of either call is logged and re-raised
ProcessAndStoreBatch(coll, chunks, st, fault) ==
    LET emb == EmbedChunks(chunks, IF fault.kind = "embed" THEN fault.at ELSE 0)
        store == StoreChunks(coll, emb.result,
                             IF fault.kind = "store" THEN fault.at ELSE 0)
    IN  IF emb.raised
        THEN [raised |-> TRUE, collection |-> coll, stats |-> st,
              chunks |-> emb.chunks_after]
        ELSE IF store.raised
        THEN [raised |-> TRUE, collection |-> store.collection, stats |-> st,
              chunks |-> emb.chunks_after]
        ELSE [raised |-> FALSE, collection |-> store.collection,
              stats |-> [st EXCEPT !.total_chunks = @ + Len(emb.result)],
              chunks |-> emb.chunks_after]

\* what the caller of a run holds once the run is over, with the collection
\* it then observes
RunRecord(raised, st, coll, faults, log) ==
    [mode |-> mode, documents |-> documents, skip_unchanged |-> skip_unchanged,
     batch_size |-> batch_size, start_empty |-> start_empty, faults |-> faults,
     fault_log |-> log,
     raised |-> raised, returned |-> IF raised THEN <<>> ELSE <<st>>,
     accumulated |-> st, ids |-> DOMAIN coll]

\* ingest_documents_incremental up to the loop (lines 167-178)
StartIncremental(docs, skip, size) ==
    /\ pc = "idle"
    /\ Len(history) < MaxRuns
    /\ mode' = "incremental"
    /\ documents' = docs
    /\ skip_unchanged' = skip
    /\ batch_size' = size
    /\ stats' = NewStats
    /\ batch_chunks' = <<>>
    /\ created' = <<>>
    /\ i' = 1
    /\ run_faults' = 0
    /\ fault_log' = <<>>
    /\ start_empty' = (DOMAIN collection = {})
    /\ IF docs = <<>>
       THEN /\ pc' = "idle"
            /\ history' = Append(history,
                  [mode |-> "incremental", documents |-> docs,
                   skip_unchanged |-> skip, batch_size |-> size,
                   start_empty |-> (DOMAIN collection = {}), faults |-> 0,
                   fault_log |-> <<>>,
                   raised |-> FALSE, returned |-> <<NewStats>>,
                   accumulated |-> NewStats, ids |-> DOMAIN collection])
       ELSE /\ pc' = "loop"
            /\ history' = history
    /\ UNCHANGED <<collection, clock, tz, gate_vars, emb_vars,
                   chunk_vars, query_vars,
                   fetch_vars, conc_vars, collection_stats>>

\* one iteration of "for i, doc in enumerate(documents, 1)" (lines 180-211)
IncrementalDoc(fault) ==
    /\ pc = "loop"
    /\ mode = "incremental"
    /\ LET doc == documents[i]
           source == doc.metadata.source
           total_docs == Len(documents)
           next_pc == IF i = total_docs THEN "final" ELSE "loop"
           chunks == ChunkDocument(doc, clock, tz)
           counted == IF chunks # <<>>
                      THEN [stats EXCEPT !.total_documents = @ + 1]
                      ELSE RecordFailure(stats, source)
           pending == batch_chunks \o chunks
           flush == (Len(pending) >= batch_size * CHUNKS_PER_DOC_AVG
                        \/ i = total_docs) /\ pending # <<>>
           done == ProcessAndStoreBatch(collection, pending, counted, fault)
       IN  /\ i' = i + 1
           /\ pc' = next_pc
           /\ created' = IF (skip_unchanged /\ ShouldSkipDocument(collection, doc))
                               \/ doc.chunking = "raises"
                           THEN created ELSE created \o chunks
           /\ IF skip_unchanged /\ ShouldSkipDocument(collection, doc)
              THEN /\ fault = NoFault
                   /\ stats' = [stats EXCEPT !.skipped_documents = @ + 1]
                   /\ UNCHANGED <<collection, batch_chunks, run_faults, fault_log>>
              ELSE IF doc.chunking = "raises"
              THEN /\ fault = NoFault
                   /\ stats' = RecordFailure(stats, source)
                   /\ UNCHANGED <<collection, batch_chunks, run_faults, fault_log>>
              ELSE IF ~flush
              THEN /\ fault = NoFault
                   /\ stats' = counted
                   /\ batch_chunks' = pending
                   /\ UNCHANGED <<collection, run_faults, fault_log>>
              ELSE /\ fault \in FaultsFor(pending)
                   /\ fault # NoFault => FaultsSoFar < MaxFaults
                   /\ collection' = done.collection
                   /\ IF done.raised
                      THEN /\ stats' = RecordFailure(done.stats, source)
                           /\ batch_chunks' = done.chunks
                           /\ run_faults' = run_faults + 1
                           /\ fault_log' = Append(fault_log, fault)
                      ELSE /\ stats' = done.stats
                           /\ batch_chunks' = <<>>
                           /\ run_faults' = run_faults
                           /\ fault_log' = fault_log
    /\ UNCHANGED <<clock, tz, mode, documents, skip_unchanged, batch_size,
                   start_empty, history, gate_vars, emb_vars,
                   chunk_vars, query_vars,
                   fetch_vars, conc_vars, collection_stats>>

IncrementalFinalNoFlush(fault) ==
    /\ pc = "final"
    /\ mode = "incremental"
    /\ fault = NoFault
    /\ history' = Append(history,
          RunRecord(FALSE, stats, collection, run_faults, fault_log))
    /\ pc' = "idle"
    /\ clock' = clock + 1
    /\ UNCHANGED <<collection, batch_chunks, stats, run_faults, fault_log,
                   tz, mode, documents, skip_unchanged, batch_size, i, created,
                   start_empty, gate_vars, emb_vars, chunk_vars, query_vars,
                   fetch_vars, conc_vars, collection_stats>>

\* the rest of ingest_documents_incremental (lines 213-227): the remaining
\* chunks are processed outside the per-document try
IncrementalFinal(fault) ==
    /\ pc = "final"
    /\ mode = "incremental"
    /\ LET done == ProcessAndStoreBatch(collection, batch_chunks, stats, fault)
       IN  IF batch_chunks = <<>>
           THEN /\ fault = NoFault
                /\ history' = Append(history,
                      RunRecord(FALSE, stats, collection, run_faults, fault_log))
                /\ UNCHANGED <<collection, batch_chunks, stats, run_faults, fault_log>>
           ELSE /\ fault \in FaultsFor(batch_chunks)
                /\ fault # NoFault => FaultsSoFar < MaxFaults
                /\ collection' = done.collection
                /\ stats' = done.stats
                /\ batch_chunks' = done.chunks
                /\ run_faults' = IF done.raised THEN run_faults + 1 ELSE run_faults
                /\ fault_log' = IF done.raised THEN Append(fault_log, fault)
                                 ELSE fault_log
                /\ history' = Append(history,
                      RunRecord(done.raised, done.stats, done.collection,
                                IF done.raised THEN run_faults + 1 ELSE run_faults,
                                IF done.raised THEN Append(fault_log, fault)
                                ELSE fault_log))
    /\ pc' = "idle"
    /\ clock' = clock + 1
    /\ UNCHANGED <<tz, mode, documents, skip_unchanged, batch_size, i, created,
                   start_empty, gate_vars, emb_vars,
                   chunk_vars, query_vars,
                   fetch_vars, conc_vars, collection_stats>>

\* ingest_documents up to the loop (lines 256-266)
StartLegacy(docs) ==
    /\ pc = "idle"
    /\ Len(history) < MaxRuns
    /\ mode' = "legacy"
    /\ documents' = docs
    /\ skip_unchanged' = FALSE
    /\ batch_size' = 0
    /\ stats' = NewStats
    /\ batch_chunks' = <<>>
    /\ created' = <<>>
    /\ i' = 1
    /\ run_faults' = 0
    /\ fault_log' = <<>>
    /\ start_empty' = (DOMAIN collection = {})
    /\ IF docs = <<>>
       THEN /\ pc' = "idle"
            /\ history' = Append(history,
                  [mode |-> "legacy", documents |-> docs,
                   skip_unchanged |-> FALSE, batch_size |-> 0,
                   start_empty |-> (DOMAIN collection = {}), faults |-> 0,
                   fault_log |-> <<>>,
                   raised |-> FALSE, returned |-> <<NewStats>>,
                   accumulated |-> NewStats, ids |-> DOMAIN collection])
       ELSE /\ pc' = "loop"
            /\ history' = history
    /\ UNCHANGED <<collection, clock, tz, gate_vars, emb_vars,
                   chunk_vars, query_vars,
                   fetch_vars, conc_vars, collection_stats>>

\* one iteration of "for doc in documents" of ingest_documents (lines 267-279)
LegacyDoc ==
    /\ pc = "loop"
    /\ mode = "legacy"
    /\ LET doc == documents[i]
           source == doc.metadata.source
           chunks == ChunkDocument(doc, clock, tz)
       IN  /\ i' = i + 1
           /\ pc' = IF i = Len(documents) THEN "final" ELSE "loop"
           /\ IF doc.chunking = "raises"
              THEN /\ stats' = RecordFailure(stats, source)
                   /\ batch_chunks' = batch_chunks
                   /\ created' = created
              ELSE IF chunks # <<>>
              THEN /\ stats' = [stats EXCEPT !.total_documents = @ + 1]
                   /\ batch_chunks' = batch_chunks \o chunks
                   /\ created' = created \o chunks
              ELSE /\ stats' = RecordFailure(stats, source)
                   /\ batch_chunks' = batch_chunks
                   /\ created' = created
    /\ UNCHANGED <<collection, clock, tz, mode, documents, skip_unchanged,
                   batch_size, run_faults, fault_log, start_empty, history, gate_vars, emb_vars,
                   chunk_vars, query_vars,
                   fetch_vars, conc_vars, collection_stats>>

\* the rest of ingest_documents (lines 281-316): embed all chunks, store
\* them; an exception of either step is logged and the stats are returned
LegacyFinish(fault) ==
    /\ pc = "final"
    /\ mode = "legacy"
    /\ LET emb == EmbedChunks(batch_chunks,
                              IF fault.kind = "embed" THEN fault.at ELSE 0)
           embedded == [stats EXCEPT !.total_chunks = Len(emb.result)]
           store == StoreChunks(collection, emb.result,
                                IF fault.kind = "store" THEN fault.at ELSE 0)
       IN  IF batch_chunks = <<>>
           THEN /\ fault = NoFault
                /\ history' = Append(history,
                      RunRecord(FALSE, stats, collection, run_faults, fault_log))
                /\ UNCHANGED <<collection, batch_chunks, stats, run_faults, fault_log>>
           ELSE /\ fault \in FaultsFor(batch_chunks)
                /\ fault # NoFault => FaultsSoFar < MaxFaults
                /\ batch_chunks' = emb.chunks_after
                /\ IF emb.raised
                   THEN /\ stats' = stats
                        /\ collection' = collection
                        /\ run_faults' = run_faults + 1
                        /\ fault_log' = Append(fault_log, fault)
                        /\ history' = Append(history,
                              RunRecord(FALSE, stats, collection, run_faults + 1,
                                        Append(fault_log, fault)))
                   ELSE /\ stats' = embedded
                        /\ collection' = store.collection
                        /\ run_faults' = IF store.raised THEN run_faults + 1
                                         ELSE run_faults
                        /\ fault_log' = IF store.raised THEN Append(fault_log, fault)
                                         ELSE fault_log
                        /\ history' = Append(history,
                              RunRecord(FALSE, embedded, store.collection,
                                        IF store.raised THEN run_faults + 1
                                        ELSE run_faults,
                                        IF store.raised THEN Append(fault_log, fault)
                                        ELSE fault_log))
    /\ pc' = "idle"
    /\ clock' = clock + 1
    /\ UNCHANGED <<tz, mode, documents, skip_unchanged, batch_size, i, created,
                   start_empty, gate_vars, emb_vars,
                   chunk_vars, query_vars,
                   fetch_vars, conc_vars, collection_stats>>

NoGateCall == [called |-> FALSE]

NoEmbedCall == [called |-> FALSE]

NoChunkCall == [called |-> FALSE]

NoQueryCall == [called |-> FALSE]

NoFetchCall == [called |-> FALSE]

NoStatsCall == [called |-> FALSE]

Init ==
    /\ collection = <<>>
    /\ clock = 0
    /\ tz \in {-1, 0, 1}
    /\ pc = "idle"
    /\ mode = "incremental"
    /\ documents = <<>>
    /\ skip_unchanged = FALSE
    /\ batch_size = 0
    /\ i = 1
    /\ batch_chunks = <<>>
    /\ created = <<>>
    /\ stats = NewStats
    /\ run_faults = 0
    /\ fault_log = <<>>
    /\ start_empty = TRUE
    /\ history = <<>>
    /\ gate_query = NoGateCall
    /\ gate_answer = NoGateCall
    /\ emb_input = <<>>
    /\ emb_fail_at = 0
    /\ emb_out = NoEmbedCall
    /\ chunk_input = NoChunkCall
    /\ chunk_out = NoChunkCall
    /\ meta_dict = NoChunkCall
    /\ meta_back = NoChunkCall
    /\ query_args = NoQueryCall
    /\ query_out = NoQueryCall
    /\ fetch_args = NoFetchCall
    /\ fetch_out = NoFetchCall
    /\ upserts = <<>>
    /\ write_log = <<>>
    /\ collection_stats = NoStatsCall

\* A behaviour ingests one documents list, MaxRuns times at most: every run
\* after the first is a re-ingestion of the documents of the run before it.
Offered(docs) == IF history = <<>> THEN TRUE ELSE docs = Last(history).documents

FaultChoices == {[kind |-> k, at |-> n] : k \in {"embed", "store"}, n \in 1..2}
                \cup {NoFault}

Next ==
    \/ /\ pc = "idle"
       /\ \E docs \in DocLists(tz), skip \in BOOLEAN, size \in BatchSizes :
             Offered(docs) /\ StartIncremental(docs, skip, size)
    \/ \E fault \in FaultChoices : IncrementalDoc(fault)
    \/ \E fault \in FaultChoices : IncrementalFinal(fault)
    \/ /\ pc = "idle"
       /\ \E docs \in DocLists(tz) : Offered(docs) /\ StartLegacy(docs)
    \/ LegacyDoc
    \/ \E fault \in FaultChoices : LegacyFinish(fault)

Spec == Init /\ [][Next]_vars

(***************************************************************************)
(* The change gate called on its own (should_skip_by_metadata, as the      *)
(* cloud-drive connector does before downloading), against an index that   *)
(* holds chunk-0 records written by this or an earlier version.            *)
(***************************************************************************)
GateTimes == {-1, 0, 1}

NullMeta == [null |-> TRUE]

\* metadata maps a stored chunk-0 record of the source may carry: written by
\* to_dict (naive local ingested_at), written with a UTC timestamp, written
\* before ingested_at existed, carrying an unparsable timestamp, or null
StoredMetas(source) ==
    LET base == [source |-> source, chunk_index |-> 0, total_chunks |-> 1]
    IN  {base @@ [ingested_at |-> Isoformat(Naive(t))] : t \in GateTimes}
        \cup {base @@ [ingested_at |-> Isoformat(AwareUTC(t))] : t \in GateTimes}
        \cup {base, base @@ [ingested_at |-> [fmt |-> "garbage"]], NullMeta}

StoredRecord(meta) ==
    [document |-> [text |-> "stored", tokens |-> 1], embedding |-> [vec |-> "stored"],
     metadata |-> meta]

GateCollections ==
    LET slot1 == {<<>>} \cup
                 {[id \in {<<"h1", 0>>} |-> StoredRecord(m)] :
                     m \in StoredMetas("a") \cup StoredMetas("c")}
        slot2 == {<<>>} \cup
                 {[id \in {<<"h2", 0>>} |-> StoredRecord(m)] : m \in StoredMetas("b")}
    IN  {c1 @@ c2 : c1 \in slot1, c2 \in slot2}

GateModifiedAts ==
    {None} \cup {Naive(t) : t \in GateTimes} \cup {AwareUTC(t) : t \in GateTimes}

\* IngestionPipeline.should_skip_by_metadata
ShouldSkipByMetadata(source, modified_at, title, lookup_raises) ==
    /\ gate_query' = [called |-> TRUE, source |-> source,
                      modified_at |-> modified_at, lookup_raises |-> lookup_raises]
    /\ gate_answer' = [called |-> TRUE] @@
                      ShouldSkip(collection, source, modified_at, title, lookup_raises)
    /\ UNCHANGED <<collection, clock, tz, ingest_vars, emb_vars, chunk_vars,
                   query_vars,
                   fetch_vars, conc_vars, collection_stats>>

InitGate ==
    /\ collection \in GateCollections
    /\ clock = 0
    /\ tz \in {-1, 0, 1}
    /\ pc = "idle"
    /\ mode = "incremental"
    /\ documents = <<>>
    /\ skip_unchanged = FALSE
    /\ batch_size = 0
    /\ i = 1
    /\ batch_chunks = <<>>
    /\ created = <<>>
    /\ stats = NewStats
    /\ run_faults = 0
    /\ fault_log = <<>>
    /\ start_empty = TRUE
    /\ history = <<>>
    /\ gate_query = NoGateCall
    /\ gate_answer = NoGateCall
    /\ emb_input = <<>>
    /\ emb_fail_at = 0
    /\ emb_out = NoEmbedCall
    /\ chunk_input = NoChunkCall
    /\ chunk_out = NoChunkCall
    /\ meta_dict = NoChunkCall
    /\ meta_back = NoChunkCall
    /\ query_args = NoQueryCall
    /\ query_out = NoQueryCall
    /\ fetch_args = NoFetchCall
    /\ fetch_out = NoFetchCall
    /\ upserts = <<>>
    /\ write_log = <<>>
    /\ collection_stats = NoStatsCall

NextGate ==
    \E source \in {"a", "b", "c", "e"}, modified_at \in GateModifiedAts,
       lookup_raises \in BOOLEAN :
        ShouldSkipByMetadata(source, modified_at, source, lookup_raises)

SpecGate == InitGate /\ [][NextGate]_vars

(***************************************************************************)
(* embed_chunks called on its own, on chunk lists whose token counts sit   *)
(* around the per-request ceiling.                                         *)
(***************************************************************************)
TokenChoices == {1, 150000, 300000, 300001}

\* chunk lists with pairwise distinct texts: the k-th chunk has text k
EmbedInputs ==
    { [k \in 1..Len(t) |->
          [content |-> [text |-> k, tokens |-> t[k]],
           metadata |-> [source |-> "s", chunk_index |-> k - 1],
           embedding |-> None]] :
      t \in UNION {[1..n -> TokenChoices] : n \in 0..MaxEmbedChunks} }

\* a call embed_chunks(emb_input) during which provider request number
\* emb_fail_at raises (0: none does)
EmbedChunksCall ==
    /\ ~emb_out.called
    /\ emb_out' = [called |-> TRUE] @@ EmbedChunks(emb_input, emb_fail_at)
    /\ UNCHANGED <<collection, clock, tz, ingest_vars, gate_vars, emb_input,
                   emb_fail_at, chunk_vars, query_vars,
                   fetch_vars, conc_vars, collection_stats>>

InitEmbed ==
    /\ collection = <<>>
    /\ clock = 0
    /\ tz = 0
    /\ pc = "idle"
    /\ mode = "incremental"
    /\ documents = <<>>
    /\ skip_unchanged = FALSE
    /\ batch_size = 0
    /\ i = 1
    /\ batch_chunks = <<>>
    /\ created = <<>>
    /\ stats = NewStats
    /\ run_faults = 0
    /\ fault_log = <<>>
    /\ start_empty = TRUE
    /\ history = <<>>
    /\ gate_query = NoGateCall
    /\ gate_answer = NoGateCall
    /\ emb_input \in EmbedInputs
    /\ emb_fail_at \in 0..MaxEmbedChunks
    /\ emb_out = NoEmbedCall
    /\ chunk_input = NoChunkCall
    /\ chunk_out = NoChunkCall
    /\ meta_dict = NoChunkCall
    /\ meta_back = NoChunkCall
    /\ query_args = NoQueryCall
    /\ query_out = NoQueryCall
    /\ fetch_args = NoFetchCall
    /\ fetch_out = NoFetchCall
    /\ upserts = <<>>
    /\ write_log = <<>>
    /\ collection_stats = NoStatsCall

NextEmbed == EmbedChunksCall

SpecEmbed == InitEmbed /\ [][NextEmbed]_vars

(***************************************************************************)
(* float: binary floating point with MantissaBits significant bits and     *)
(* round-half-to-even, the arithmetic of Python's float at a smaller       *)
(* precision.  A value is zero (m = 0) or m * 2^e with a normalised m.     *)
(***************************************************************************)
RECURSIVE Pow2(_)
Pow2(n) == IF n = 0 THEN 1 ELSE 2 * Pow2(n - 1)

Max(a, b) == IF a >= b THEN a ELSE b

RoundHalfEven(num, den) ==
    LET q == num \div den
        r == num % den
    IN  IF 2 * r < den THEN q
        ELSE IF 2 * r > den THEN q + 1
        ELSE IF q % 2 = 0 THEN q ELSE q + 1

\* the float nearest to (num / den) * 2^e, for num > 0
RECURSIVE Normalize(_, _, _)
Normalize(num, den, e) ==
    IF num < den * Pow2(MantissaBits - 1) THEN Normalize(2 * num, den, e - 1)
    ELSE IF num >= den * Pow2(MantissaBits) THEN Normalize(num, 2 * den, e + 1)
    ELSE LET m == RoundHalfEven(num, den)
         IN  IF m = Pow2(MantissaBits)
             THEN [m |-> Pow2(MantissaBits - 1), e |-> e + 1]
             ELSE [m |-> m, e |-> e]

\* float(num / den)
FloatOf(num, den) == IF num = 0 THEN [m |-> 0, e |-> 0] ELSE Normalize(num, den, 0)

\* a + b
FloatAdd(a, b) ==
    LET low == Min(a.e, b.e)
        sum == a.m * Pow2(a.e - low) + b.m * Pow2(b.e - low)
    IN  IF low >= 0 THEN FloatOf(sum * Pow2(low), 1) ELSE FloatOf(sum, Pow2(0 - low))

\* a / b, for b # 0
FloatDiv(a, b) ==
    FloatOf(a.m * Pow2(Max(a.e - b.e, 0)), b.m * Pow2(Max(b.e - a.e, 0)))

\* a < b
FloatLess(a, b) ==
    LET low == Min(a.e, b.e)
    IN  a.m * Pow2(a.e - low) < b.m * Pow2(b.e - low)

ScoreWithoutOne(distance) ==
    IF distance.m = 0 THEN FloatOf(1, 1) ELSE FloatDiv(FloatOf(1, 1), distance)

\* score = 1.0 / (1.0 + distance)
Score(distance) == FloatDiv(FloatOf(1, 1), FloatAdd(FloatOf(1, 1), distance))

(***************************************************************************)
(* RetrievalService (src/retrieval.py)                                     *)
(***************************************************************************)
TOP_K == 5                \* Settings.top_k

\* an int value of an Optional[int] argument
IntOf(n) == [kind |-> "int", value |-> n]

\* a list value of an Optional[List] argument
List(items) == [kind |-> "list", items |-> items]

\* str.strip() on the query texts of the model
Strip(text) == IF text \in {"", " ", "  "} THEN "" ELSE text

Take(s, n) == SubSeq(s, 1, Min(n, Len(s)))

\* the where filter query builds from source_type_filter
WhereFilter(source_type_filter) ==
    IF source_type_filter = None \/ source_type_filter.items = <<>>
    THEN None
    ELSE LET source_values == [k \in 1..Len(source_type_filter.items) |->
                                  source_type_filter.items[k].value]
         IN  IF Len(source_values) = 1
             THEN [kind |-> "eq", value |-> source_values[1]]
             ELSE [kind |-> "in", values |-> Range(source_values)]

\* whether a stored metadata map passes the where filter
MatchesWhere(where, metadata) ==
    IF where = None THEN TRUE
    ELSE IF "source_type" \notin DOMAIN metadata THEN FALSE
    ELSE IF where.kind = "eq" THEN metadata.source_type = where.value
    ELSE metadata.source_type \in where.values

\* collection.query(query_embeddings, n_results, where, include): hits is
\* the index ordered by distance to the query embedding; the store answers
\* with the n_results nearest records that pass the filter
CollectionQuery(hits, n_results, where) ==
    LET Passes(record) == MatchesWhere(where, record.metadata)
    IN  Take(SelectSeq(hits, Passes), n_results)

BelowOrAtMinScore(score, min_score) == ~FloatLess(min_score, score)

\* "if score < min_score: continue"
BelowMinScore(score, min_score) == FloatLess(score, min_score)

\* "for i in range(len(results["ids"][0]))" from record k on; from_dict
\* raising ends the loop with the exception
RECURSIVE ParseResults(_, _, _, _, _, _)
ParseResults(results, k, min_score, now, offset, retrieval_results) ==
    IF k > Len(results)
    THEN [raised |-> FALSE, results |-> retrieval_results]
    ELSE LET distance == results[k].distance
             score == Score(distance)
             metadata == FromDict(results[k].metadata, now, offset)
         IN  IF BelowMinScore(score, min_score)
             THEN ParseResults(results, k + 1, min_score, now, offset,
                               retrieval_results)
             ELSE IF metadata.raised
             THEN [raised |-> TRUE, results |-> retrieval_results]
             ELSE ParseResults(results, k + 1, min_score, now, offset,
                     Append(retrieval_results,
                            [content |-> results[k].document,
                             metadata |-> metadata.value,
                             score |-> score,
                             distance |-> distance]))

\* the body of the try block of query; raised stands for an exception
\* raised inside it.  embed_calls and store_queries count the calls of
\* embed_text and collection.query.
QueryTry(args, now, offset) ==
    LET top_k == IF args.top_k = None THEN TOP_K ELSE args.top_k.value
        where_filter == WhereFilter(args.source_type_filter)
        results == CollectionQuery(args.hits, top_k, where_filter)
        parsed == ParseResults(results, 1, args.min_score, now, offset, <<>>)
    IN  IF args.embed_raises
        THEN [raised |-> TRUE, results |-> <<>>, embed_calls |-> 1,
              store_queries |-> 0]
        ELSE IF args.store_raises
        THEN [raised |-> TRUE, results |-> <<>>, embed_calls |-> 1,
              store_queries |-> 1]
        ELSE [raised |-> parsed.raised, results |-> parsed.results,
              embed_calls |-> 1, store_queries |-> 1]

QueryStripless(args, now, offset) ==
    IF args.query_text = ""
    THEN [raised |-> FALSE, failed |-> FALSE, results |-> <<>>,
          embed_calls |-> 0, store_queries |-> 0]
    ELSE LET body == QueryTry(args, now, offset)
         IN  [raised |-> FALSE, failed |-> body.raised,
              results |-> IF body.raised THEN <<>> ELSE body.results,
              embed_calls |-> body.embed_calls,
              store_queries |-> body.store_queries]

QueryUnguarded(args, now, offset) ==
    IF args.query_text = "" \/ Strip(args.query_text) = ""
    THEN [raised |-> FALSE, failed |-> FALSE, results |-> <<>>,
          embed_calls |-> 0, store_queries |-> 0]
    ELSE LET body == QueryTry(args, now, offset)
         IN  [raised |-> body.raised, failed |-> body.raised,
              results |-> body.results,
              embed_calls |-> body.embed_calls,
              store_queries |-> body.store_queries]

\* RetrievalService.query: a blank query_text returns [] before the try;
\* "except Exception" logs and returns [].  failed tells that an exception
\* was caught.
Query(args, now, offset) ==
    IF args.query_text = "" \/ Strip(args.query_text) = ""
    THEN [raised |-> FALSE, failed |-> FALSE, results |-> <<>>,
          embed_calls |-> 0, store_queries |-> 0]
    ELSE LET body == QueryTry(args, now, offset)
         IN  [raised |-> FALSE, failed |-> body.raised,
              results |-> IF body.raised THEN <<>> ELSE body.results,
              embed_calls |-> body.embed_calls,
              store_queries |-> body.store_queries]

(***************************************************************************)
(* chunk_document called on its own, followed by the serialisation of one  *)
(* chunk's metadata for the store (to_dict) and its reconstruction         *)
(* (from_dict).                                                            *)
(***************************************************************************)
\* documents with blank and non-blank content, with and without the
\* Optional metadata fields, with naive and timezone-aware timestamps
ChunkInputs ==
    { [Doc(source, source_type, modified_at, kind, pieces, chunking)
          EXCEPT !.metadata.title = optional.title,
                 !.metadata.author = optional.rest,
                 !.metadata.file_type = optional.rest,
                 !.metadata.url = optional.rest,
                 !.metadata.created_at = created_at] :
      source \in {"a", "b"}, source_type \in {"local", "gdrive"},
      modified_at \in {None, Naive(0), AwareUTC(1)},
      created_at \in {None, Naive(-1)},
      kind \in {"empty", "whitespace", "text"}, pieces \in 0..MaxPieces,
      chunking \in {"ok", "splitter_raises"},
      optional \in [title : {None, Str("t")}, rest : {None, Str("r")}] }

\* a call chunk_document(chunk_input)
ChunkDocumentCall ==
    /\ ~chunk_out.called
    /\ chunk_out' = [called |-> TRUE] @@ ChunkDocumentOutcome(chunk_input, clock, tz)
    /\ UNCHANGED <<collection, clock, tz, ingest_vars, gate_vars, emb_vars,
                   chunk_input, meta_dict, meta_back, query_vars,
                   fetch_vars, conc_vars, collection_stats>>

\* a call to_dict() on the metadata of the k-th chunk, as _store_chunks makes
ToDictCall(k) ==
    /\ chunk_out.called
    /\ ~meta_dict.called
    /\ k \in 1..Len(chunk_out.chunks)
    /\ meta_dict' = [called |-> TRUE, of |-> k,
                     data |-> ToDict(chunk_out.chunks[k].metadata)]
    /\ UNCHANGED <<collection, clock, tz, ingest_vars, gate_vars, emb_vars,
                   chunk_input, chunk_out, meta_back, query_vars,
                   fetch_vars, conc_vars, collection_stats>>

\* a call ChunkMetadata.from_dict(meta_dict), as query makes on a stored map
FromDictCall ==
    /\ meta_dict.called
    /\ ~meta_back.called
    /\ meta_back' = [called |-> TRUE] @@ FromDict(meta_dict.data, clock, tz)
    /\ UNCHANGED <<collection, clock, tz, ingest_vars, gate_vars, emb_vars,
                   chunk_input, chunk_out, meta_dict, query_vars,
                   fetch_vars, conc_vars, collection_stats>>

InitChunk ==
    /\ collection = <<>>
    /\ clock = 0
    /\ tz \in {0, 1}
    /\ pc = "idle"
    /\ mode = "incremental"
    /\ documents = <<>>
    /\ skip_unchanged = FALSE
    /\ batch_size = 0
    /\ i = 1
    /\ batch_chunks = <<>>
    /\ created = <<>>
    /\ stats = NewStats
    /\ run_faults = 0
    /\ fault_log = <<>>
    /\ start_empty = TRUE
    /\ history = <<>>
    /\ gate_query = NoGateCall
    /\ gate_answer = NoGateCall
    /\ emb_input = <<>>
    /\ emb_fail_at = 0
    /\ emb_out = NoEmbedCall
    /\ chunk_input \in ChunkInputs
    /\ chunk_out = NoChunkCall
    /\ meta_dict = NoChunkCall
    /\ meta_back = NoChunkCall
    /\ query_args = NoQueryCall
    /\ query_out = NoQueryCall
    /\ fetch_args = NoFetchCall
    /\ fetch_out = NoFetchCall
    /\ upserts = <<>>
    /\ write_log = <<>>
    /\ collection_stats = NoStatsCall

NextChunk ==
    \/ ChunkDocumentCall
    \/ \E k \in 1..MaxPieces : ToDictCall(k)
    \/ FromDictCall

SpecChunk == InitChunk /\ [][NextChunk]_vars

(***************************************************************************)
(* RetrievalService.query called on its own against an index of at most    *)
(* MaxHits records, some of them carrying a metadata map from_dict cannot  *)
(* read.                                                                   *)
(***************************************************************************)
\* the document whose chunks the index holds
HitDoc(source_type) == Doc("b", source_type, AwareUTC(0), "text", MaxHits, "ok")

\* the metadata map stored for its k-th chunk; "garbage" is a map whose
\* ingested_at is not ISO text
HitMetadata(k, kind) ==
    LET document == HitDoc(IF kind = "gdrive" THEN "gdrive" ELSE "local")
        chunks == MakeChunks(document, SplitText(document.content), 0, 0)
        data == ToDict(chunks[k].metadata)
    IN  IF kind = "garbage"
        THEN [data EXCEPT !.ingested_at = [fmt |-> "garbage"]]
        ELSE data

\* the index as collection.query sees it for one query: at most longest
\* records in the order of their distance to the query embedding
HitLists(distances, kinds, longest) ==
    { [k \in 1..Len(c) |->
          [id |-> <<Md5Prefix("b"), k - 1>>,
           document |-> [text |-> <<"b", k - 1>>, tokens |-> CHUNK_SIZE],
           metadata |-> HitMetadata(k, c[k][2]),
           distance |-> c[k][1]]] :
      c \in { c \in UNION {[1..n -> distances \X kinds] : n \in 0..longest} :
                \A j, k \in 1..Len(c) : j < k => ~FloatLess(c[k][1], c[j][1]) } }

\* the collection holding the records of a hit list
IndexOf(hits) ==
    [id \in {hits[k].id : k \in 1..Len(hits)} |->
        LET k == CHOOSE k \in 1..Len(hits) : hits[k].id = id
        IN  [document |-> hits[k].document,
             embedding |-> Vec(hits[k].document),
             metadata |-> hits[k].metadata]]

QueryDistances == {FloatOf(0, 1), FloatOf(1, 1), FloatOf(3, 1)}

MinScores == {FloatOf(0, 1), FloatOf(1, 2), FloatOf(1, 1)}

\* the calls of query: its four arguments, whether embed_text or
\* collection.query raises during the call, and the index it runs against
QueryCalls ==
    [query_text : {"", "  ", "q"},
     top_k : {None, IntOf(1), IntOf(2)},
     source_type_filter : {None, List(<<SourceType("local")>>),
                           List(<<SourceType("local"), SourceType("gdrive")>>)},
     min_score : MinScores,
     embed_raises : {FALSE}, store_raises : {FALSE},
     hits : HitLists(QueryDistances, {"local", "gdrive", "garbage"}, MaxHits)]
    \cup
    [query_text : {"", "  ", "q"},
     top_k : {None, IntOf(1), IntOf(2)},
     source_type_filter : {None, List(<<SourceType("local")>>)},
     min_score : MinScores,
     embed_raises : BOOLEAN, store_raises : BOOLEAN,
     hits : HitLists({FloatOf(1, 1)}, {"local"}, MaxHits)]

\* a call query(query_text, top_k, source_type_filter, min_score)
QueryCall ==
    /\ query_args.called
    /\ ~query_out.called
    /\ query_out' = [called |-> TRUE] @@ Query(query_args, clock, tz)
    /\ UNCHANGED <<collection, clock, tz, ingest_vars, gate_vars, emb_vars,
                   chunk_vars, query_args, fetch_vars, conc_vars,
                   collection_stats>>

\* no ingestion run, gate call, embed_chunks call or chunk_document call
NothingElseCalled ==
    /\ pc = "idle"
    /\ mode = "incremental"
    /\ documents = <<>>
    /\ skip_unchanged = FALSE
    /\ batch_size = 0
    /\ i = 1
    /\ batch_chunks = <<>>
    /\ created = <<>>
    /\ stats = NewStats
    /\ run_faults = 0
    /\ fault_log = <<>>
    /\ start_empty = TRUE
    /\ history = <<>>
    /\ gate_query = NoGateCall
    /\ gate_answer = NoGateCall
    /\ emb_input = <<>>
    /\ emb_fail_at = 0
    /\ emb_out = NoEmbedCall
    /\ chunk_input = NoChunkCall
    /\ chunk_out = NoChunkCall
    /\ meta_dict = NoChunkCall
    /\ meta_back = NoChunkCall
    /\ fetch_args = NoFetchCall
    /\ fetch_out = NoFetchCall
    /\ upserts = <<>>
    /\ write_log = <<>>
    /\ collection_stats = NoStatsCall

InitQuery ==
    /\ query_args \in {[called |-> TRUE] @@ call : call \in QueryCalls}
    /\ query_out = NoQueryCall
    /\ collection = IndexOf(query_args.hits)
    /\ clock = 1
    /\ tz = 0
    /\ NothingElseCalled

NextQuery == QueryCall

SpecQuery == InitQuery /\ [][NextQuery]_vars

(***************************************************************************)
(* query against an index of at most two records, their distances drawn    *)
(* from every float between 2^-MaxExponent and 4, and 0.                   *)
(***************************************************************************)
ScoreDistances ==
    {FloatOf(0, 1)}
    \cup {[m |-> m, e |-> e] :
            m \in Pow2(MantissaBits - 1)..(Pow2(MantissaBits) - 1),
            e \in (1 - MantissaBits - MaxExponent)..(2 - MantissaBits)}

ScoreCalls ==
    [query_text : {"q"}, top_k : {None}, source_type_filter : {None},
     min_score : {FloatOf(0, 1)}, embed_raises : {FALSE}, store_raises : {FALSE},
     hits : HitLists(ScoreDistances, {"local"}, 2)]

InitScore ==
    /\ query_args \in {[called |-> TRUE] @@ call : call \in ScoreCalls}
    /\ query_out = NoQueryCall
    /\ collection = IndexOf(query_args.hits)
    /\ clock = 1
    /\ tz = 0
    /\ NothingElseCalled

SpecScore == InitScore /\ [][NextQuery]_vars

(***************************************************************************)
(* Ingestion runs over successive versions of one cloud-drive document:    *)
(* between two runs the document may be modified and re-chunk into another *)
(* number of chunks, among them one more than an upsert slice holds.  The  *)
(* process runs in UTC.                                                    *)
(***************************************************************************)
VersionPieces == {1, 2, UPSERT_BATCH_SIZE + 1}

\* the document as a run finds it: modified just now, into any number of
\* chunks, or unmodified since the run before
VersionDocs(now) ==
    { Doc("b", "gdrive", AwareUTC(now), "text", p, "ok") : p \in VersionPieces }
    \cup (IF history = <<>> THEN {} ELSE {Last(history).documents[1]})

InitVersions ==
    /\ collection = <<>>
    /\ clock = 0
    /\ tz = 0
    /\ pc = "idle"
    /\ mode = "incremental"
    /\ documents = <<>>
    /\ skip_unchanged = FALSE
    /\ batch_size = 0
    /\ i = 1
    /\ batch_chunks = <<>>
    /\ created = <<>>
    /\ stats = NewStats
    /\ run_faults = 0
    /\ fault_log = <<>>
    /\ start_empty = TRUE
    /\ history = <<>>
    /\ gate_query = NoGateCall
    /\ gate_answer = NoGateCall
    /\ emb_input = <<>>
    /\ emb_fail_at = 0
    /\ emb_out = NoEmbedCall
    /\ chunk_input = NoChunkCall
    /\ chunk_out = NoChunkCall
    /\ meta_dict = NoChunkCall
    /\ meta_back = NoChunkCall
    /\ query_args = NoQueryCall
    /\ query_out = NoQueryCall
    /\ fetch_args = NoFetchCall
    /\ fetch_out = NoFetchCall
    /\ upserts = <<>>
    /\ write_log = <<>>
    /\ collection_stats = NoStatsCall

NextVersions ==
    \/ /\ pc = "idle"
       /\ \E doc \in VersionDocs(clock), skip \in BOOLEAN, size \in BatchSizes :
             StartIncremental(<<doc>>, skip, size)
    \/ \E fault \in FaultChoices : IncrementalDoc(fault)
    \/ \E fault \in FaultChoices : IncrementalFinal(fault)
    \/ /\ pc = "idle"
       /\ \E doc \in VersionDocs(clock) : StartLegacy(<<doc>>)
    \/ LegacyDoc
    \/ \E fault \in FaultChoices : LegacyFinish(fault)

SpecVersions == InitVersions /\ [][NextVersions]_vars

(***************************************************************************)
(* RetrievalService.get_document_by_source called on its own, against an   *)
(* index holding some chunks of two sources, the store returning the       *)
(* matching records in any order.                                          *)
(***************************************************************************)
FetchDoc(source) == Doc(source, "local", Naive(0), "text", MaxPieces, "ok")

\* the record stored for chunk k of a source; kind "garbage" carries an
\* ingested_at that is not ISO text
FetchRecord(source, k, kind) ==
    LET document == FetchDoc(source)
        chunk == MakeChunks(document, SplitText(document.content), 0, 0)[k]
        data == ToDict(chunk.metadata)
    IN  [document |-> chunk.content,
         embedding |-> Vec(chunk.content),
         metadata |-> IF kind = "garbage"
                      THEN [data EXCEPT !.ingested_at = [fmt |-> "garbage"]]
                      ELSE data]

\* indexes holding any subset of the chunks of the sources a and b
FetchCollections ==
    LET slots == {"a", "b"} \X (1..MaxPieces)
        id(slot) == <<Md5Prefix(slot[1]), slot[2] - 1>>
        kinds(slot) == IF slot[2] = 1 THEN {"ok", "garbage"} ELSE {"ok"}
    IN  UNION { { [rid \in {id(slot) : slot \in present} |->
                     LET slot == CHOOSE slot \in present : id(slot) = rid
                     IN  FetchRecord(slot[1], slot[2], choice[slot])] :
                  choice \in { f \in [present -> {"ok", "garbage"}] :
                                 \A slot \in present : f[slot] \in kinds(slot) } }
                : present \in SUBSET slots }

\* one listing of a set
RECURSIVE Listing(_)
Listing(set) ==
    IF set = {} THEN <<>>
    ELSE LET x == CHOOSE x \in set : TRUE
         IN  <<x>> \o Listing(set \ {x})

\* the orders in which a set may be listed
Orders(set) ==
    { order \in [1..Cardinality(set) -> set] :
        \A j, k \in 1..Cardinality(set) : j # k => order[j] # order[k] }

\* collection.get(where={"source": source}, include=[documents, metadatas]):
\* the records whose metadata carries that source, in the store's order
CollectionGet(coll, where_source, store_order) ==
    LET kept == SelectSeq(store_order,
                          LAMBDA id : coll[id].metadata.source = where_source)
    IN  [k \in 1..Len(kept) |->
            [id |-> kept[k], document |-> coll[kept[k]].document,
             metadata |-> coll[kept[k]].metadata]]

\* list.sort(key=lambda r: r.metadata.chunk_index): stable, ascending
RECURSIVE SortByChunkIndex(_)
SortByChunkIndex(results) ==
    IF results = <<>> THEN <<>>
    ELSE LET sorted == SortByChunkIndex(SubSeq(results, 1, Len(results) - 1))
             r == results[Len(results)]
             before == SelectSeq(sorted, LAMBDA x :
                          x.metadata.chunk_index <= r.metadata.chunk_index)
             after == SelectSeq(sorted, LAMBDA x :
                          x.metadata.chunk_index > r.metadata.chunk_index)
         IN  before \o <<r>> \o after

\* the loop over results["ids"]: one RetrievalResult per record, score 1.0
\* and distance 0.0; from_dict raising ends the loop
FetchResults(results, now, offset) ==
    LET parsed == [k \in 1..Len(results) |-> FromDict(results[k].metadata, now, offset)]
    IN  IF \E k \in 1..Len(results) : parsed[k].raised
        THEN [raised |-> TRUE, results |-> <<>>]
        ELSE [raised |-> FALSE,
              results |-> [k \in 1..Len(results) |->
                              [content |-> results[k].document,
                               metadata |-> parsed[k].value,
                               score |-> FloatOf(1, 1),
                               distance |-> FloatOf(0, 1)]]]

\* the body of the try block of get_document_by_source
GetDocumentBySourceTry(coll, args, now, offset) ==
    IF args.get_raises THEN [raised |-> TRUE, results |-> <<>>]
    ELSE LET results == CollectionGet(coll, args.source, args.store_order)
             built == FetchResults(results, now, offset)
         IN  IF results = <<>> THEN [raised |-> FALSE, results |-> <<>>]
             ELSE IF built.raised THEN built
             ELSE [raised |-> FALSE, results |-> SortByChunkIndex(built.results)]

GetDocumentBySourceUnguarded(coll, args, now, offset) ==
    LET body == GetDocumentBySourceTry(coll, args, now, offset)
    IN  [raised |-> body.raised, failed |-> body.raised, results |-> body.results]

\* RetrievalService.get_document_by_source: "except Exception" logs and
\* returns []
GetDocumentBySource(coll, args, now, offset) ==
    LET body == GetDocumentBySourceTry(coll, args, now, offset)
    IN  [raised |-> FALSE, failed |-> body.raised,
         results |-> IF body.raised THEN <<>> ELSE body.results]

\* the calls of get_document_by_source against an index: the source asked
\* for, whether collection.get raises, and the order in which the store
\* lists its records (those of the source in any order)
FetchCalls(coll) ==
    UNION { LET mine == {id \in DOMAIN coll : coll[id].metadata.source = source}
                rest == Listing(DOMAIN coll \ mine)
            IN  [source : {source}, get_raises : BOOLEAN,
                 store_order : {rest \o order : order \in Orders(mine)}] :
            source \in {"a", "b", "e"} }

GetDocumentBySourceCall ==
    /\ fetch_args.called
    /\ ~fetch_out.called
    /\ fetch_out' = [called |-> TRUE] @@
                    GetDocumentBySource(collection, fetch_args, clock, tz)
    /\ UNCHANGED <<collection, clock, tz, ingest_vars, gate_vars, emb_vars,
                   chunk_vars, query_vars, fetch_args, conc_vars,
                   collection_stats>>

InitFetch ==
    /\ collection \in FetchCollections
    /\ fetch_args \in {[called |-> TRUE] @@ call : call \in FetchCalls(collection)}
    /\ fetch_out = NoFetchCall
    /\ clock = 1
    /\ tz = 0
    /\ pc = "idle"
    /\ mode = "incremental"
    /\ documents = <<>>
    /\ skip_unchanged = FALSE
    /\ batch_size = 0
    /\ i = 1
    /\ batch_chunks = <<>>
    /\ created = <<>>
    /\ stats = NewStats
    /\ run_faults = 0
    /\ fault_log = <<>>
    /\ start_empty = TRUE
    /\ history = <<>>
    /\ gate_query = NoGateCall
    /\ gate_answer = NoGateCall
    /\ emb_input = <<>>
    /\ emb_fail_at = 0
    /\ emb_out = NoEmbedCall
    /\ chunk_input = NoChunkCall
    /\ chunk_out = NoChunkCall
    /\ meta_dict = NoChunkCall
    /\ meta_back = NoChunkCall
    /\ query_args = NoQueryCall
    /\ query_out = NoQueryCall
    /\ upserts = <<>>
    /\ write_log = <<>>
    /\ collection_stats = NoStatsCall

NextFetch == GetDocumentBySourceCall

SpecFetch == InitFetch /\ [][NextFetch]_vars

(***************************************************************************)
(* Two ingestion runs against the same index at the same time (the daemon  *)
(* and a manual run), without any lock: each run chunks and embeds its     *)
(* documents and issues its upsert calls, slice after slice; the store     *)
(* executes one upsert call at a time, in any interleaving.                *)
(***************************************************************************)
ConcurrentRuns == {1, 2}

ConcurrentDocLists ==
    LET a == Doc("a", "local", Naive(0), "text", 2, "ok")
        b == Doc("b", "gdrive", AwareUTC(0), "text", 5, "ok")
        c == Doc("c", "local", None, "text", 1, "ok")
        long == Doc("b", "gdrive", AwareUTC(0), "text", UPSERT_BATCH_SIZE + 1, "ok")
    IN  {<<a>>, <<a, b>>, <<c>>, <<long>>}

\* the chunks a run over the documents embeds and stores
RunChunks(docs, now, offset) ==
    EmbedChunks(Flatten([k \in 1..Len(docs) |-> ChunkDocument(docs[k], now, offset)]),
                0).result

\* the collection.upsert calls _store_chunks issues for the chunks
UpsertCalls(chunks) ==
    LET ids == [k \in 1..Len(chunks) |-> GenerateChunkId(chunks[k])]
        records == [k \in 1..Len(chunks) |->
                       [document |-> chunks[k].content,
                        embedding |-> chunks[k].embedding,
                        metadata |-> ToDict(chunks[k].metadata)]]
    IN  [k \in 1..NumSlices(Len(chunks)) |->
            LET first == (k - 1) * UPSERT_BATCH_SIZE + 1
                batch_end == Min(k * UPSERT_BATCH_SIZE, Len(chunks))
            IN  [ids |-> SubSeq(ids, first, batch_end),
                 records |-> SubSeq(records, first, batch_end)]]

NotStarted == [started |-> FALSE]

\* run r chunks and embeds its documents (ingest_documents up to line 296)
StartRun(r, docs) ==
    /\ ~upserts[r].started
    /\ upserts' = [upserts EXCEPT ![r] =
                      [started |-> TRUE, documents |-> docs, next |-> 1,
                       calls |-> UpsertCalls(RunChunks(docs, clock, tz))]]
    /\ clock' = clock + 1
    /\ UNCHANGED <<collection, tz, ingest_vars, gate_vars, emb_vars, chunk_vars,
                   query_vars, fetch_vars, write_log, collection_stats>>

\* the store executes the next collection.upsert call of run r
UpsertStep(r) ==
    /\ upserts[r].started
    /\ upserts[r].next <= Len(upserts[r].calls)
    /\ LET call == upserts[r].calls[upserts[r].next]
       IN  /\ collection' = Upsert(collection, call.ids, call.records)
           /\ write_log' = Append(write_log, [run |-> r, call |-> upserts[r].next])
    /\ upserts' = [upserts EXCEPT ![r].next = @ + 1]
    /\ UNCHANGED <<clock, tz, ingest_vars, gate_vars, emb_vars, chunk_vars,
                   query_vars, fetch_vars, collection_stats>>

InitConcurrent ==
    /\ collection = <<>>
    /\ clock = 0
    /\ tz = 0
    /\ upserts = [r \in ConcurrentRuns |-> NotStarted]
    /\ write_log = <<>>
    /\ pc = "idle"
    /\ mode = "incremental"
    /\ documents = <<>>
    /\ skip_unchanged = FALSE
    /\ batch_size = 0
    /\ i = 1
    /\ batch_chunks = <<>>
    /\ created = <<>>
    /\ stats = NewStats
    /\ run_faults = 0
    /\ fault_log = <<>>
    /\ start_empty = TRUE
    /\ history = <<>>
    /\ gate_query = NoGateCall
    /\ gate_answer = NoGateCall
    /\ emb_input = <<>>
    /\ emb_fail_at = 0
    /\ emb_out = NoEmbedCall
    /\ chunk_input = NoChunkCall
    /\ chunk_out = NoChunkCall
    /\ meta_dict = NoChunkCall
    /\ meta_back = NoChunkCall
    /\ query_args = NoQueryCall
    /\ query_out = NoQueryCall
    /\ fetch_args = NoFetchCall
    /\ fetch_out = NoFetchCall
    /\ collection_stats = NoStatsCall

NextConcurrent ==
    \E r \in ConcurrentRuns :
        \/ \E docs \in ConcurrentDocLists : StartRun(r, docs)
        \/ UpsertStep(r)

SpecConcurrent == InitConcurrent /\ [][NextConcurrent]_vars

(***************************************************************************)
(* Every operation that touches the collection, called between ingestion   *)
(* runs: the resets (a pipeline constructed with reset_collection, or      *)
(* clear_collection) and the operations that read it.                      *)
(***************************************************************************)
\* IngestionPipeline.__init__: with reset_collection the collection is
\* deleted (delete_collection raises only when there is none, and then
\* nothing is stored) and get_or_create_collection returns an empty one;
\* without it the existing collection is kept
NewPipeline(reset_collection) ==
    /\ pc = "idle"
    /\ collection' = IF reset_collection THEN <<>> ELSE collection
    /\ UNCHANGED <<clock, tz, ingest_vars, gate_vars, emb_vars, chunk_vars,
                   query_vars, fetch_vars, conc_vars, collection_stats>>

\* IngestionPipeline.clear_collection: delete_collection, create_collection;
\* an exception (no collection to delete) is logged, and nothing is stored
\* then either
ClearCollection ==
    /\ pc = "idle"
    /\ collection' = <<>>
    /\ UNCHANGED <<clock, tz, ingest_vars, gate_vars, emb_vars, chunk_vars,
                   query_vars, fetch_vars, conc_vars, collection_stats>>

\* a behaviour holds one call of a reading operation, at any point
NoReadYet == ~collection_stats.called /\ ~query_out.called /\ ~gate_answer.called

\* IngestionPipeline.get_collection_stats: count(), and the source types of
\* a sample of at most 100 records
GetCollectionStats ==
    /\ pc = "idle"
    /\ NoReadYet
    /\ LET count == Cardinality(DOMAIN collection)
           sample == CHOOSE ids \in SUBSET DOMAIN collection :
                        Cardinality(ids) = Min(STATS_SAMPLE_LIMIT, count)
           TypeOf(id) == IF "source_type" \in DOMAIN collection[id].metadata
                         THEN collection[id].metadata.source_type
                         ELSE "unknown"
       IN  collection_stats' =
              [called |-> TRUE, total_chunks |-> count,
               source_types |-> [t \in {TypeOf(id) : id \in sample} |->
                                    Cardinality({id \in sample : TypeOf(id) = t})]]
    /\ UNCHANGED <<collection, clock, tz, ingest_vars, gate_vars, emb_vars,
                   chunk_vars, query_vars, fetch_vars, conc_vars>>

\* the stored records as collection.query lists them for a query embedding
\* at distance 1 of each
RECURSIVE StoredHits(_, _)
StoredHits(coll, ids) ==
    IF ids = {} THEN <<>>
    ELSE LET id == CHOOSE id \in ids : TRUE
         IN  <<[id |-> id, document |-> coll[id].document,
                metadata |-> coll[id].metadata, distance |-> FloatOf(1, 1)]>>
             \o StoredHits(coll, ids \ {id})

\* RetrievalService.query against the collection as it is
QueryStored(embed_raises) ==
    /\ pc = "idle"
    /\ NoReadYet
    /\ LET args == [query_text |-> "q", top_k |-> None,
                    source_type_filter |-> None, min_score |-> FloatOf(0, 1),
                    embed_raises |-> embed_raises, store_raises |-> FALSE,
                    hits |-> StoredHits(collection, DOMAIN collection)]
       IN  /\ query_args' = [called |-> TRUE] @@ args
           /\ query_out' = [called |-> TRUE] @@ Query(args, clock, tz)
    /\ UNCHANGED <<collection, clock, tz, ingest_vars, gate_vars, emb_vars,
                   chunk_vars, fetch_vars, conc_vars, collection_stats>>

\* should_skip_by_metadata, once the pipeline is idle
GateCheck(source, lookup_raises) ==
    /\ pc = "idle"
    /\ NoReadYet
    /\ ShouldSkipByMetadata(source, None, source, lookup_raises)

ResetDocLists ==
    { <<Doc("a", "local", Naive(0), "text", 2, "ok")>>,
      <<Doc("b", "gdrive", AwareUTC(0), "text", 5, "ok")>> }

\* each documents list is ingested once per behaviour
NotYetIngested(docs) == \A k \in 1..Len(history) : history[k].documents # docs

NextReset ==
    \/ /\ pc = "idle"
       /\ \E docs \in ResetDocLists, skip \in BOOLEAN, size \in BatchSizes :
             NotYetIngested(docs) /\ StartIncremental(docs, skip, size)
    \/ \E fault \in FaultChoices : IncrementalDoc(fault)
    \/ \E fault \in FaultChoices : IncrementalFinal(fault)
    \/ /\ pc = "idle"
       /\ \E docs \in ResetDocLists : NotYetIngested(docs) /\ StartLegacy(docs)
    \/ LegacyDoc
    \/ \E fault \in FaultChoices : LegacyFinish(fault)
    \/ \E reset_collection \in BOOLEAN : NewPipeline(reset_collection)
    \/ ClearCollection
    \/ GetCollectionStats
    \/ \E embed_raises \in BOOLEAN : QueryStored(embed_raises)
    \/ \E lookup_raises \in BOOLEAN : GateCheck("a", lookup_raises)

SpecReset == InitVersions /\ [][NextReset]_vars

(***************************************************************************)
(* Properties                                                              *)
(***************************************************************************)
Tokens(batch) == SumSeq([k \in 1..Len(batch) |-> batch[k].content.tokens])

\* a finished run that did not consult the change gate
BypassesGate(run) == run.mode = "legacy" \/ ~run.skip_unchanged

\* a finished run without embedding or storage fault that returned its stats
Successful(run) == run.faults = 0 /\ ~run.raised

\* the stored records that are the earlier-run counterpart of a pending chunk
StoredCounterparts(chunk) ==
    { id \in DOMAIN collection :
        /\ collection[id].metadata.source = chunk.metadata.source
        /\ collection[id].metadata.chunk_index = chunk.metadata.chunk_index }

\* C1: the storage ID of a chunk depends on (source, chunk_index) only: a
\* chunk produced by chunking a document again gets the ID under which the
\* chunk of the same source and index was stored by an earlier run, and
\* changing the chunk's content or its ingested_at does not change its ID.
C1_DeterministicChunkId ==
    \A k \in 1..Len(batch_chunks) :
        LET chunk == batch_chunks[k]
        IN  /\ \A id \in StoredCounterparts(chunk) : id = GenerateChunkId(chunk)
            /\ \A t \in GateTimes :
                 GenerateChunkId([chunk EXCEPT !.content.text = <<"other", 0>>,
                                               !.metadata.ingested_at = Naive(t)])
                 = GenerateChunkId(chunk)

\* a chunk is pending whose counterpart was stored at another time
C1_Witness ==
    \E k \in 1..Len(batch_chunks) :
        \E id \in StoredCounterparts(batch_chunks[k]) :
            collection[id].metadata.ingested_at
                # Isoformat(batch_chunks[k].metadata.ingested_at)

\* the documents of a run all yield at least one chunk
AllYieldChunks(docs) ==
    \A k \in 1..Len(docs) : docs[k].chunking = "ok" /\ docs[k].content.pieces > 0

\* C2: two incremental runs in succession on the same documents, the first
\* from an empty collection, no fault, every document yielding chunks: the
\* second run with skip_unchanged skips every document, counts none in
\* total_documents and leaves the chunk count unchanged.
C2_ReingestionSkipsAll ==
    \A k \in 1..(Len(history) - 1) :
        LET first == history[k]
            second == history[k + 1]
        IN  ( /\ first.mode = "incremental" /\ second.mode = "incremental"
              /\ first.start_empty
              /\ first.documents = second.documents
              /\ AllYieldChunks(first.documents)
              /\ Successful(first) /\ Successful(second)
              /\ second.skip_unchanged )
            => /\ second.returned[1].skipped_documents = Len(second.documents)
               /\ second.returned[1].total_documents = 0
               /\ Cardinality(second.ids) = Cardinality(first.ids)

\* C3: over successive successful runs of the same documents that bypass the
\* change gate, the set of stored IDs after a later run equals the set after
\* the first of them.
C3_UpsertIdempotent ==
    \A j, k \in 1..Len(history) :
        ( /\ j < k
          /\ \A m \in j..k :
                /\ BypassesGate(history[m])
                /\ Successful(history[m])
                /\ history[m].documents = history[j].documents )
        => history[k].ids = history[j].ids

\* two gate-bypassing successful runs stored the same non-empty set of IDs
C3_Witness ==
    /\ Len(history) >= 2
    /\ BypassesGate(history[1]) /\ BypassesGate(history[2])
    /\ Successful(history[1]) /\ Successful(history[2])
    /\ history[1].ids # {}
    /\ history[2].accumulated.total_chunks > 0

\* the chunk-0 record stored under the ID of the queried source
GateId == <<Md5Prefix(gate_query.source), 0>>

GateRecordReadable ==
    /\ GateId \in DOMAIN collection
    /\ "ingested_at" \in DOMAIN collection[GateId].metadata
    /\ collection[GateId].metadata.ingested_at.fmt = "iso"

GateCannotRead ==
    \/ gate_query.lookup_raises
    \/ /\ GateId \in DOMAIN collection
       /\ ~GateRecordReadable

\* C5: the gate fails open: when the lookup raises, the stored record is
\* malformed, its timestamp does not parse or it has no ingested_at, the gate
\* answers do-not-skip, and it never raises.
C5_GateFailsOpen ==
    gate_answer.called =>
        /\ ~gate_answer.raised
        /\ GateCannotRead => ~gate_answer.value

\* the gate was asked about a source whose stored timestamp does not parse
C5_Witness ==
    /\ gate_answer.called
    /\ ~gate_query.lookup_raises
    /\ GateId \in DOMAIN collection
    /\ "ingested_at" \in DOMAIN collection[GateId].metadata
    /\ collection[GateId].metadata.ingested_at.fmt = "garbage"
    /\ ~gate_answer.value

\* the step is a loop iteration that did not skip the document
ChunkedStep ==
    /\ pc = "loop"
    /\ stats'.skipped_documents = stats.skipped_documents

\* C6: per-document failure containment in both entry points: a document
\* whose chunking raises adds exactly 1 to failed_documents and its source to
\* failed_files and the loop goes on; every chunked document that yields
\* chunks is counted in total_documents; a run without batch fault returns.
C6_PerDocumentContainment ==
    [][ /\ ( ChunkedStep /\ documents[i].chunking = "raises" )
           => /\ stats'.failed_documents = stats.failed_documents + 1
              /\ stats'.failed_files
                    = Append(stats.failed_files, documents[i].metadata.source)
              /\ stats'.total_documents = stats.total_documents
              /\ pc' \in {"loop", "final"}
        /\ ( ChunkedStep /\ documents[i].chunking = "ok"
                /\ documents[i].content.pieces > 0 )
           => stats'.total_documents = stats.total_documents + 1
        /\ ( pc = "final" /\ run_faults' = 0 )
           => /\ pc' = "idle"
              /\ Last(history').returned = <<stats'>>
      ]_vars

\* a run of three documents whose second raised returned total 2, failed 1
C6_Witness ==
    \E k \in 1..Len(history) :
        /\ Len(history[k].documents) = 3
        /\ history[k].documents[2].chunking = "raises"
        /\ ~history[k].raised
        /\ history[k].returned[1].total_documents = 2
        /\ history[k].returned[1].failed_documents = 1
        /\ history[k].returned[1].failed_files
              = <<history[k].documents[2].metadata.source>>

\* C7: in ingest_documents_incremental an exception of embedding or storing
\* a pending batch propagates to the caller of the run and adds nothing to
\* failed_documents or failed_files.
C7_BatchFailurePropagates ==
    [][ ( mode = "incremental" /\ pc \in {"loop", "final"}
             /\ run_faults' = run_faults + 1 )
        => /\ pc' = "idle"
           /\ Last(history').raised
           /\ ( pc = "loop" /\ documents[i].chunking = "ok"
                   /\ documents[i].content.pieces > 0 )
              => /\ stats'.failed_documents = stats.failed_documents
                 /\ stats'.failed_files = stats.failed_files
      ]_vars

\* C8: when a batch fails after earlier batches were embedded and stored,
\* the caller of the run obtains the counters accumulated before the failure.
C8_PartialStatsPreserved ==
    \A k \in 1..Len(history) :
        ( history[k].faults > 0 /\ history[k].accumulated.total_chunks > 0 )
        => history[k].returned = <<history[k].accumulated>>

\* the chunk list handed to embed_chunks exceeds the per-request ceiling
OverCeiling == Tokens(emb_input) > MAX_TOKENS_PER_REQUEST

\* the chunks embed_chunks returned are the input chunks, in their order,
\* each with the vector the provider returns for its own content
ReturnsInputEmbedded ==
    /\ Len(emb_out.result) = Len(emb_input)
    /\ \A k \in 1..Len(emb_input) :
          /\ emb_out.result[k].content = emb_input[k].content
          /\ emb_out.result[k].metadata = emb_input[k].metadata
          /\ emb_out.result[k].embedding # None
          /\ emb_out.result[k].embedding = [vec |-> emb_input[k].content.text]

\* C9 as stated: embed_chunks on chunks whose combined token count exceeds
\* the ceiling issues more than one provider request and returns exactly the
\* input chunks in their order, each with the vector of its own content.
C9_Original ==
    ( emb_out.called /\ ~emb_out.raised /\ OverCeiling ) =>
        /\ emb_out.calls > 1
        /\ ReturnsInputEmbedded

\* C9 amended: embed_chunks on chunks whose combined token count exceeds the
\* ceiling issues more than one provider request when there are at least two
\* chunks and exactly one when the input is a single chunk, and returns
\* exactly the input chunks in their order, each with the vector of its own
\* content.
C9_BatchingPreservesChunks ==
    ( emb_out.called /\ ~emb_out.raised /\ OverCeiling ) =>
        /\ Len(emb_input) >= 2 => emb_out.calls > 1
        /\ Len(emb_input) = 1 => emb_out.calls = 1
        /\ ReturnsInputEmbedded

\* a list over the ceiling was embedded in several requests, one of them
\* carrying more than one chunk
C9_Witness ==
    /\ emb_out.called /\ ~emb_out.raised /\ OverCeiling
    /\ Len(emb_input) >= 3
    /\ emb_out.calls >= 2
    /\ \E b \in 1..Len(emb_out.batches) : Len(emb_out.batches[b]) >= 2

\* C10: in the multi-batch path the batches are non-empty contiguous runs of
\* the input; a batch exceeds the ceiling only when it is a single text over
\* the ceiling; a batch is closed exactly when the next text would push its
\* total over the ceiling.
C10_GreedyBatches ==
    ( emb_out.called /\ OverCeiling ) =>
        LET batches == emb_out.batches
        IN  /\ Flatten(batches) = emb_input
            /\ \A b \in 1..Len(batches) :
                  /\ batches[b] # <<>>
                  /\ \/ Tokens(batches[b]) <= MAX_TOKENS_PER_REQUEST
                     \/ Len(batches[b]) = 1
                  /\ \A m \in 2..Len(batches[b]) :
                        Tokens(SubSeq(batches[b], 1, m)) <= MAX_TOKENS_PER_REQUEST
            /\ \A b \in 1..(Len(batches) - 1) :
                  Tokens(batches[b]) + batches[b + 1][1].content.tokens
                     > MAX_TOKENS_PER_REQUEST

\* the plan holds a single-text batch over the ceiling and a batch of several
\* texts
C10_Witness ==
    /\ emb_out.called /\ OverCeiling
    /\ \E b \in 1..Len(emb_out.batches) :
          Len(emb_out.batches[b]) = 1
          /\ Tokens(emb_out.batches[b]) > MAX_TOKENS_PER_REQUEST
    /\ \E b \in 1..Len(emb_out.batches) : Len(emb_out.batches[b]) >= 2

\* C11: embed_chunks on an empty list issues no provider request and returns
\* an empty list; on a non-empty list whose total token count is at or under
\* the ceiling (the ceiling itself included) it issues exactly one request.
C11_OneRequestUnderCeiling ==
    emb_out.called =>
        /\ emb_input = <<>>
              => /\ emb_out.calls = 0
                 /\ ~emb_out.raised
                 /\ emb_out.result = <<>>
        /\ ( emb_input # <<>> /\ Tokens(emb_input) <= MAX_TOKENS_PER_REQUEST )
              => /\ emb_out.calls = 1
                 /\ emb_out.batches = <<emb_input>>

\* several chunks whose total equals the ceiling were embedded in one request
C11_Witness ==
    /\ emb_out.called /\ ~emb_out.raised
    /\ Len(emb_input) >= 2
    /\ Tokens(emb_input) = MAX_TOKENS_PER_REQUEST
    /\ emb_out.calls = 1
    /\ Len(emb_out.result) = Len(emb_input)

\* C16: the chunks chunk_document produces for a document carry the
\* chunk_index values 0, 1, ..., k-1 in output order, all carry
\* total_chunks = k, and all carry the document's source, source_type and
\* title.
C16_ChunkIndexContiguity ==
    chunk_out.called =>
        LET k == Len(chunk_out.chunks)
        IN  \A j \in 1..k :
               /\ chunk_out.chunks[j].metadata.chunk_index = j - 1
               /\ chunk_out.chunks[j].metadata.total_chunks = k
               /\ chunk_out.chunks[j].metadata.source = chunk_input.metadata.source
               /\ chunk_out.chunks[j].metadata.source_type
                     = chunk_input.metadata.source_type
               /\ chunk_out.chunks[j].metadata.title = chunk_input.metadata.title

\* a titled document was chunked into at least three chunks
C16_Witness ==
    /\ chunk_out.called
    /\ Len(chunk_out.chunks) >= 3
    /\ chunk_input.metadata.title # None
    /\ chunk_out.chunks[3].metadata.chunk_index = 2

\* the document has empty or whitespace-only content, or the splitter raises
\* on it
BlankOrSplitterError(doc) ==
    IsBlank(doc.content) \/ doc.chunking = "splitter_raises"

\* C17: chunk_document does not raise on a document with blank content or a
\* splitter error and yields no chunk for it; the loop iteration of an
\* ingestion run that chunks such a document adds exactly 1 to
\* failed_documents and its source to failed_files, does not count it in
\* total_documents, stores no record of it, and the run goes on.
C17_EmptyChunkListFailsDocument ==
    [][ ( ChunkedStep /\ BlankOrSplitterError(documents[i]) )
        => /\ ~ChunkDocumentOutcome(documents[i], clock, tz).raised
           /\ ChunkDocument(documents[i], clock, tz) = <<>>
           /\ stats'.failed_documents = stats.failed_documents + 1
           /\ stats'.failed_files
                 = Append(stats.failed_files, documents[i].metadata.source)
           /\ stats'.total_documents = stats.total_documents
           /\ \A id \in DOMAIN collection' :
                 collection'[id].metadata.source # documents[i].metadata.source
           /\ pc' \in {"loop", "final"}
      ]_vars

\* the ChunkMetadata whose map meta_dict holds
Serialized == chunk_out.chunks[meta_dict.of].metadata

\* C18: the map to_dict produces holds no null value (an absent Optional
\* field has no key), always holds source, source_type, chunk_index,
\* total_chunks and ingested_at, and from_dict of the map is the original
\* ChunkMetadata, source_type being an enum member and the timestamps
\* datetimes.
C18_MetadataRoundTrip ==
    /\ meta_dict.called =>
          /\ \A key \in DOMAIN meta_dict.data \cap (OptionalFields \cup {"ingested_at"}) :
                meta_dict.data[key] # None
          /\ \A key \in OptionalFields :
                Serialized[key] = None => key \notin DOMAIN meta_dict.data
          /\ RequiredFields \cup {"ingested_at"} \subseteq DOMAIN meta_dict.data
    /\ meta_back.called =>
          /\ ~meta_back.raised
          /\ meta_back.value = Serialized
          /\ meta_back.value.source_type.kind = "SourceType"
          /\ \A key \in DatetimeFields :
                meta_back.value[key] # None => meta_back.value[key].kind = "dt"

\* a ChunkMetadata without title, with a naive and a timezone-aware
\* timestamp, went through to_dict and from_dict
C18_Witness ==
    /\ meta_back.called
    /\ Serialized.title = None
    /\ "title" \notin DOMAIN meta_dict.data
    /\ Serialized.created_at # None
    /\ Serialized.modified_at # None
    /\ Serialized.modified_at.tzinfo = "utc"
    /\ meta_back.value.modified_at = Serialized.modified_at

\* the query text is empty or whitespace-only
BlankQuery == Strip(query_args.query_text) = ""

\* C12: query with an empty or whitespace-only query_text returns an empty
\* list, calls neither the embedding provider nor the index and does not
\* raise, whatever top_k, source_type_filter and min_score are.
C12_BlankQueryReturnsEmpty ==
    ( query_out.called /\ BlankQuery ) =>
        /\ query_out.results = <<>>
        /\ query_out.embed_calls = 0
        /\ query_out.store_queries = 0
        /\ ~query_out.raised
        /\ ~query_out.failed

\* a whitespace-only query with top_k, a filter and a min_score set returned
\* nothing from a non-empty index
C12_Witness ==
    /\ query_out.called
    /\ query_args.query_text = "  "
    /\ query_args.top_k # None
    /\ query_args.source_type_filter # None
    /\ query_args.min_score = FloatOf(1, 2)
    /\ query_args.hits # <<>>
    /\ query_out.results = <<>>

\* the records the store returns for the call: the top_k nearest that pass
\* the source type filter
StoreAnswer ==
    LET n == IF query_args.top_k = None THEN TOP_K ELSE query_args.top_k.value
        Passes(record) ==
            \/ query_args.source_type_filter = None
            \/ \E k \in 1..Len(query_args.source_type_filter.items) :
                  query_args.source_type_filter.items[k].value
                     = record.metadata.source_type
    IN  Take(SelectSeq(query_args.hits, Passes), n)

\* those of them whose score is at least min_score
AtLeastMinScore ==
    LET Kept(record) == ~FloatLess(Score(record.distance), query_args.min_score)
    IN  SelectSeq(StoreAnswer, Kept)

\* C13: a query that runs without exception returns exactly the records of
\* the store's answer whose score is >= min_score, in the store's order:
\* every result has score >= min_score, there are at most top_k results, and
\* the store is queried once only.
C13_MinScorePostFilter ==
    ( query_out.called /\ ~BlankQuery /\ ~query_out.failed ) =>
        /\ Len(query_out.results) = Len(AtLeastMinScore)
        /\ \A k \in 1..Len(query_out.results) :
              /\ query_out.results[k].content = AtLeastMinScore[k].document
              /\ query_out.results[k].distance = AtLeastMinScore[k].distance
              /\ ~FloatLess(query_out.results[k].score, query_args.min_score)
        /\ Len(query_out.results)
              <= (IF query_args.top_k = None THEN TOP_K ELSE query_args.top_k.value)
        /\ query_out.store_queries = 1

\* the index held more than top_k records; of the top_k returned one had
\* exactly the minimum score and was kept, another was dropped, and no
\* further record was fetched
C13_Witness ==
    /\ query_out.called /\ ~BlankQuery /\ ~query_out.failed
    /\ query_args.top_k = IntOf(2)
    /\ Len(query_args.hits) = 3
    /\ Len(StoreAnswer) = 2
    /\ Len(query_out.results) = 1
    /\ query_out.results[1].score = query_args.min_score

\* an exception is raised during the call: by embed_text, by
\* collection.query, or by from_dict on a returned record that passes the
\* score filter
ExceptionDuringQuery ==
    \/ query_args.embed_raises
    \/ query_args.store_raises
    \/ \E k \in 1..Len(AtLeastMinScore) :
          FromDict(AtLeastMinScore[k].metadata, clock, tz).raised

\* C14: no exception propagates from query; when embedding the query,
\* querying the store or reconstructing a result's metadata raises, query
\* returns an empty list.
C14_QueryNeverRaises ==
    query_out.called =>
        /\ ~query_out.raised
        /\ ( ~BlankQuery /\ ExceptionDuringQuery ) => query_out.results = <<>>

\* the metadata of the second record could not be reconstructed after the
\* first had been, and the query returned nothing
C14_Witness ==
    /\ query_out.called /\ ~BlankQuery
    /\ ~query_args.embed_raises /\ ~query_args.store_raises
    /\ Len(AtLeastMinScore) >= 2
    /\ ~FromDict(AtLeastMinScore[1].metadata, clock, tz).raised
    /\ FromDict(AtLeastMinScore[2].metadata, clock, tz).raised
    /\ query_out.failed
    /\ query_out.results = <<>>

\* the score of every result lies in (0, 1] and is 1 for distance 0
ScoresInRange ==
    \A k \in 1..Len(query_out.results) :
        LET result == query_out.results[k]
        IN  /\ FloatLess(FloatOf(0, 1), result.score)
            /\ ~FloatLess(FloatOf(1, 1), result.score)
            /\ result.distance = FloatOf(0, 1) => result.score = FloatOf(1, 1)

\* C15 as stated: the score of every result lies in (0, 1], is exactly 1
\* for distance 0, and of two results the one with the larger distance has
\* the strictly smaller score.
C15_Original ==
    query_out.called =>
        /\ ScoresInRange
        /\ \A j, k \in 1..Len(query_out.results) :
              FloatLess(query_out.results[j].distance, query_out.results[k].distance)
              => FloatLess(query_out.results[k].score, query_out.results[j].score)

\* C15 amended: the score of every result lies in (0, 1], is exactly 1 for
\* distance 0, and of two results the one with the larger distance never has
\* the larger score.
C15_ScoreRangeAndOrder ==
    query_out.called =>
        /\ ScoresInRange
        /\ \A j, k \in 1..Len(query_out.results) :
              FloatLess(query_out.results[j].distance, query_out.results[k].distance)
              => ~FloatLess(query_out.results[j].score, query_out.results[k].score)

\* a result at distance 0 scored 1 and a result at a larger distance scored
\* strictly less
C15_Witness ==
    /\ query_out.called
    /\ Len(query_out.results) = 2
    /\ query_out.results[1].distance = FloatOf(0, 1)
    /\ query_out.results[1].score = FloatOf(1, 1)
    /\ FloatLess(query_out.results[1].distance, query_out.results[2].distance)
    /\ FloatLess(query_out.results[2].score, query_out.results[1].score)

\* C19: after ingest_documents returns for documents ingested into an empty
\* collection, the number of records in the collection equals the returned
\* total_chunks, also when embedding or storing failed during the run.
C19_TotalChunksIsStoredCount ==
    \A k \in 1..Len(history) :
        ( history[k].mode = "legacy" /\ history[k].start_empty
             /\ ~history[k].raised )
        => Cardinality(history[k].ids) = history[k].returned[1].total_chunks

\* C20: a finished ingest_documents run and a finished
\* ingest_documents_incremental run with skip_unchanged = False, on the same
\* documents, both from an empty index and with the same embedding and
\* storage calls raising, leave the same records in the index, hand the same
\* stats to the caller and both surface a failure or both do not.
C20_LegacyIsIncrementalWithoutGate ==
    \A j, k \in 1..Len(history) :
        ( /\ history[j].mode = "legacy"
          /\ history[k].mode = "incremental" /\ ~history[k].skip_unchanged
          /\ history[j].start_empty /\ history[k].start_empty
          /\ history[j].documents = history[k].documents
          /\ history[j].fault_log = history[k].fault_log )
        => /\ history[j].ids = history[k].ids
           /\ history[j].raised = history[k].raised
           /\ history[j].returned = history[k].returned

\* the last run was ingest_documents_incremental and it returned its stats
IncrementalReturned ==
    /\ pc = "idle"
    /\ history # <<>>
    /\ Last(history).mode = "incremental"
    /\ ~Last(history).raised

\* C24: when ingest_documents_incremental returns normally no chunk is left
\* pending: every chunk the run added to the pending batch is in the index
\* with its vector and is counted in total_chunks, also when the last
\* document was skipped or failed and the batch threshold was never reached.
C24_NothingLeftPending ==
    IncrementalReturned
    => /\ stats.total_chunks = Len(created)
       /\ \A k \in 1..Len(created) :
             /\ GenerateChunkId(created[k]) \in DOMAIN collection
             /\ collection[GenerateChunkId(created[k])].embedding # None

\* a normal return whose last document raised in the loop, so that only the
\* flush after the loop could store the chunks, fewer than the threshold
C24_Witness ==
    /\ IncrementalReturned
    /\ documents # <<>>
    /\ documents[Len(documents)].chunking = "raises"
    /\ created # <<>>
    /\ Len(created) < batch_size * CHUNKS_PER_DOC_AVG
    /\ run_faults = 0

\* the sources of the documents the run counted in total_documents
CountedSources == {created[k].metadata.source : k \in 1..Len(created)}

\* C26: on normal return of ingest_documents_incremental every input
\* document is counted in exactly one terminal state: total_documents +
\* skipped_documents + failed_documents is the number of input documents,
\* failed_documents is the length of failed_files, and no source is both
\* counted in total_documents and listed in failed_files.
C26_OneTerminalStatePerDocument ==
    IncrementalReturned
    => /\ stats.total_documents + stats.skipped_documents
             + stats.failed_documents = Len(documents)
       /\ stats.failed_documents = Len(stats.failed_files)
       /\ CountedSources \cap Range(stats.failed_files) = {}

\* the step is a flush whose embedding request raised
EmbeddingFailedStep ==
    /\ run_faults' = run_faults + 1
    /\ Last(fault_log').kind = "embed"

\* C30: embedding precedes storage: every stored record carries a vector,
\* and a flush whose embedding fails writes no chunk of its pending batch
\* (it leaves the index as it was), in both ingestion entry points.
C30_EmbeddingPrecedesStorage ==
    /\ [](\A id \in DOMAIN collection : collection[id].embedding # None)
    /\ [][EmbeddingFailedStep => collection' = collection]_vars

\* a run over documents that yield chunks whose only flush failed in the
\* embedding request: the index is still empty
C30_Witness ==
    /\ pc = "idle"
    /\ created # <<>>
    /\ fault_log # <<>>
    /\ \A k \in 1..Len(fault_log) : fault_log[k].kind = "embed"
    /\ Len(history) = 1
    /\ DOMAIN collection = {}

\* C29: documents with different sources never share a storage ID: after a
\* run without faults every chunk the run stored is still found under its
\* ID as a record of its own source (no upsert of another document
\* overwrote it), and the change gate answers skip for a document only on a
\* chunk-0 record of that document's source.
C29_DistinctSourcesDistinctIds ==
    /\ ( pc = "idle" /\ run_faults = 0 )
       => \A k \in 1..Len(created) :
             /\ GenerateChunkId(created[k]) \in DOMAIN collection
             /\ collection[GenerateChunkId(created[k])].metadata.source
                   = created[k].metadata.source
    /\ \A doc \in DocPool(tz) :
          ShouldSkipDocument(collection, doc)
          => collection[<<Md5Prefix(doc.metadata.source), 0>>].metadata.source
                = doc.metadata.source

\* the instant a datetime denotes: an aware UTC value reads it directly, a
\* naive value is the local wall clock of the process that produced it
\* (datetime.now() of the ingestion, datetime.fromtimestamp of a local file)
Instant(d) == IF d.tzinfo = "none" THEN d.wall - tz ELSE d.wall

\* the chunk-0 record of the queried source carries an ingested_at written
\* by to_dict, that is, by datetime.now() of an ingestion in this timezone
GateRecordWrittenByIngestion ==
    /\ GateRecordReadable
    /\ collection[GateId].metadata.source = gate_query.source
    /\ collection[GateId].metadata.ingested_at.suffix = ""

\* C25: a source modified at an instant later than the instant of its last
\* ingestion is not skipped by the change gate, whatever the local timezone
\* and whether modified_at is timezone-aware UTC or naive local.
C25_GateComparesInstants ==
    ( /\ gate_answer.called /\ ~gate_query.lookup_raises
      /\ GateRecordWrittenByIngestion
      /\ gate_query.modified_at # None
      /\ Instant(gate_query.modified_at)
            > Instant(Naive(collection[GateId].metadata.ingested_at.wall)) )
    => ~gate_answer.value

\* the document as the last run was given it
LastOffered == Last(history).documents[1]

\* C27: skip implies complete: after any sequence of runs, also runs in
\* which an upsert slice or an embedding request failed, when the change
\* gate answers skip for the unmodified document all its chunks, indices
\* 0 .. total_chunks-1, are in the index.
C27_SkipImpliesComplete ==
    ( /\ pc = "idle"
      /\ history # <<>>
      /\ ShouldSkipDocument(collection, LastOffered) )
    => \A idx \in 0..(LastOffered.content.pieces - 1) :
          /\ <<Md5Prefix(LastOffered.metadata.source), idx>> \in DOMAIN collection
          /\ collection[<<Md5Prefix(LastOffered.metadata.source), idx>>]
                .metadata.total_chunks = LastOffered.content.pieces

\* the stored records of a source
RecordsOf(source) ==
    {id \in DOMAIN collection : collection[id].metadata.source = source}

\* C28: after any sequence of successful ingestion runs the stored records
\* of one source are the chunks of one version: they share one total_chunks
\* k and their chunk_index values are exactly 0 .. k-1, also after a
\* modified document re-chunked into fewer chunks.
C28_NoStaleChunks ==
    ( pc = "idle" /\ \A r \in 1..Len(history) : Successful(history[r]) )
    => \A id \in DOMAIN collection :
          LET k == collection[id].metadata.total_chunks
              records == RecordsOf(collection[id].metadata.source)
          IN  /\ \A other \in records : collection[other].metadata.total_chunks = k
              /\ {collection[other].metadata.chunk_index : other \in records}
                    = 0..(k - 1)

\* the stored records whose source is the one asked for
StoredOfSource ==
    {id \in DOMAIN collection : collection[id].metadata.source = fetch_args.source}

\* collection.get raises, or from_dict raises on a record of the source
ErrorDuringFetch ==
    \/ fetch_args.get_raises
    \/ \E id \in StoredOfSource : FromDict(collection[id].metadata, clock, tz).raised

\* C22: get_document_by_source(s) never raises; on any error it returns an
\* empty list; otherwise it returns every stored record whose source is s,
\* each once, no record of another source, ordered by chunk_index ascending
\* whatever order the store returned them in.
C22_FetchBySource ==
    fetch_out.called
    => /\ ~fetch_out.raised
       /\ ErrorDuringFetch => fetch_out.results = <<>>
       /\ ~ErrorDuringFetch
          => /\ Len(fetch_out.results) = Cardinality(StoredOfSource)
             /\ \A id \in StoredOfSource :
                   \E k \in 1..Len(fetch_out.results) :
                      /\ fetch_out.results[k].content = collection[id].document
                      /\ fetch_out.results[k].metadata.chunk_index
                            = collection[id].metadata.chunk_index
             /\ \A k \in 1..Len(fetch_out.results) :
                   fetch_out.results[k].metadata.source = fetch_args.source
             /\ \A j, k \in 1..Len(fetch_out.results) :
                   j < k => fetch_out.results[j].metadata.chunk_index
                               < fetch_out.results[k].metadata.chunk_index

\* the store listed three records of the source with the last chunk first,
\* next to records of another source, and the call returned them
C22_Witness ==
    /\ fetch_out.called
    /\ ~ErrorDuringFetch
    /\ Len(fetch_out.results) >= 3
    /\ collection[Last(fetch_args.store_order)].metadata.chunk_index = 0
    /\ StoredOfSource # DOMAIN collection

\* the IDs an issued upsert call wrote, and the record it wrote under an ID
WrittenIds(w) == Range(upserts[w.run].calls[w.call].ids)

WrittenRecord(w, id) ==
    LET call == upserts[w.run].calls[w.call]
    IN  call.records[CHOOSE j \in 1..Len(call.ids) : call.ids[j] = id]

\* both runs have issued all their upsert calls
BothRunsDone ==
    \A r \in ConcurrentRuns :
        upserts[r].started /\ upserts[r].next > Len(upserts[r].calls)

\* C21: two ingestion runs upserting into the same index without a lock are
\* safe: in every interleaving of their upsert calls the index holds one
\* record per ID written, with the value of the last write to that ID, and
\* when both runs ingested the same documents the final set of IDs is that
\* of a single run.
C21_ConcurrentUpsertsLastWriteWins ==
    /\ DOMAIN collection = UNION {WrittenIds(write_log[p]) : p \in 1..Len(write_log)}
    /\ \A id \in DOMAIN collection :
          \E p \in 1..Len(write_log) :
             /\ id \in WrittenIds(write_log[p])
             /\ \A q \in (p + 1)..Len(write_log) : id \notin WrittenIds(write_log[q])
             /\ collection[id] = WrittenRecord(write_log[p], id)
    /\ ( BothRunsDone /\ upserts[1].documents = upserts[2].documents )
       => DOMAIN collection
             = DOMAIN StoreChunks(<<>>, RunChunks(upserts[1].documents, 0, tz), 0).collection

\* both runs stored the same document of more than one slice, their upsert
\* calls alternating, the run that chunked first writing the last slice
C21_Witness ==
    /\ BothRunsDone
    /\ upserts[1].documents = upserts[2].documents
    /\ Len(write_log) = 4
    /\ write_log[1].run # write_log[2].run
    /\ write_log[3].run # write_log[4].run
    /\ write_log[1].run = write_log[4].run

\* the step is one of the two explicit resets
ExplicitReset == ClearCollection \/ NewPipeline(TRUE)

====
